---- MODULE Spec2Model ----
(***************************************************************************)
(* A model of sharepointmanager/sharepoint.py: the SharePointManager       *)
(* session (access_token, site_id, drive_id), the requests each operation  *)
(* issues, and the remote drive the requests are answered from.            *)
(*                                                                         *)
(* Strings the code takes apart (names, suffixes, paths) are sequences of  *)
(* one-character strings; a URL is the sequence of the pieces the code's   *)
(* f-strings concatenate.                                                  *)
(***************************************************************************)
EXTENDS Integers, Sequences, FiniteSets, TLC

VARIABLES access_token, site_id, drive_id, remote, last, token_acquisitions

\* token_acquisitions counts the calls of acquire_token_for_client
vars == <<access_token, site_id, drive_id, remote, last, token_acquisitions>>

(***************************************************************************)
(* Bounds of the model.                                                    *)
(***************************************************************************)
\* items of the remote drive in the search specification
MaxNodes == 3
\* items of the remote drive in the store specification
MaxItems == 4
\* characters of a path handed to a URL builder
MaxPathLen == 2
\* folders named in the parent path of an item resource
MaxDepth == 2
\* entries of a drive listing answered to get_drive_id
MaxDrives == 2

(***************************************************************************)
(* Values.                                                                 *)
(***************************************************************************)
\* Python's None (sharepoint.py:48-50).  Every value that may be None is a
\* sequence of strings, and so is None: no string of the model equals it.
None == <<"None">>

\* names for the items 1, 2, ..: an id, a link and the bytes of item i are
\* written with Digits[i]
Digits == <<"1", "2", "3", "4", "5", "6", "7", "8", "9">>

IndexOf(d) == CHOOSE i \in 1..Len(Digits) : Digits[i] = d

GRAPH_API_BASE == "https://graph.microsoft.com/v1.0"

\* the token the token provider hands out
Token == <<"tok">>

SiteIds == {<<"s1">>, <<"s2">>}
DriveIds == {<<"d1">>, <<"d2">>}
DriveNames == {<<"Documenten">>, <<"documenten">>}
\* preferred names a caller asks for; "Archive" names no drive
PreferredNames == {<<"Documenten">>, <<"Archive">>}

\* item names of the remote drive: a name ending in ".g" and one ending in
\* "g" after a space, which quote() escapes
Names == { <<"x", ".", "g">>, <<"a", " ", ".", "g">> }
\* suffix arguments of the searches
Suffixes == { <<>>, <<"g">>, <<".", "g">>, <<"G">>, <<"x", ".", "g">> }
Kinds == {"file", "folder", "other"}
\* a path that names no item of any remote drive of the model
MissingPath == <<"n", "o">>

(***************************************************************************)
(* Strings.                                                                *)
(***************************************************************************)
\* str.endswith
EndsWith(s, suffix) ==
    /\ Len(suffix) <= Len(s)
    /\ SubSeq(s, Len(s) - Len(suffix) + 1, Len(s)) = suffix

\* str.startswith
StartsWith(s, prefix) ==
    /\ Len(prefix) <= Len(s)
    /\ SubSeq(s, 1, Len(prefix)) = prefix

RECURSIVE Flatten(_)
Flatten(ss) == IF ss = <<>> THEN <<>> ELSE Head(ss) \o Flatten(Tail(ss))

\* urllib.parse.quote on one character (safe: letters, digits, "_.-~" and "/")
QuoteChar(c) ==
    CASE c = " " -> <<"%", "2", "0">>
      [] c = "%" -> <<"%", "2", "5">>
      [] c = ":" -> <<"%", "3", "A">>
      [] OTHER   -> <<c>>

\* urllib.parse.quote
Quote(s) == Flatten([i \in 1..Len(s) |-> QuoteChar(s[i])])

\* the remote's decoding of a percent-encoded path
RECURSIVE Unquote(_)
Unquote(s) ==
    IF s = <<>> THEN <<>>
    ELSE IF Len(s) >= 3 /\ SubSeq(s, 1, 3) = <<"%", "2", "0">>
         THEN <<" ">> \o Unquote(SubSeq(s, 4, Len(s)))
    ELSE IF Len(s) >= 3 /\ SubSeq(s, 1, 3) = <<"%", "2", "5">>
         THEN <<"%">> \o Unquote(SubSeq(s, 4, Len(s)))
    ELSE IF Len(s) >= 3 /\ SubSeq(s, 1, 3) = <<"%", "3", "A">>
         THEN <<":">> \o Unquote(SubSeq(s, 4, Len(s)))
    ELSE <<Head(s)>> \o Unquote(Tail(s))

\* f"{current_path}/{name}" if current_path else name
JoinPath(current_path, name) ==
    IF current_path # <<>> THEN current_path \o <<"/">> \o name ELSE name

(***************************************************************************)
(* URL builders, on the session's site_id and drive_id.                    *)
(***************************************************************************)
_get_site_url(site_path) ==
    IF site_path # <<>>
    THEN <<GRAPH_API_BASE, "/sites/", "SITE_NAME", ":">> \o site_path
    ELSE <<GRAPH_API_BASE, "/sites/", "SITE_NAME">>

_get_drives_url(sid) == <<GRAPH_API_BASE, "/sites/">> \o sid \o <<"/drives">>

_get_drive_root_url(sid, did) ==
    <<GRAPH_API_BASE, "/sites/">> \o sid \o <<"/drives/">> \o did \o <<"/root">>

_get_drive_item_url(sid, did, encoded_path) ==
    _get_drive_root_url(sid, did) \o <<":/">> \o encoded_path

_get_drive_item_content_url(sid, did, encoded_path) ==
    _get_drive_item_url(sid, did, encoded_path) \o <<":/content">>

\* a children URL builder without the case of the empty path
_get_drive_children_url_always_colon(sid, did, folder_path) ==
    _get_drive_item_url(sid, did, Quote(folder_path)) \o <<":/children">>

_get_drive_children_url(sid, did, folder_path) ==
    IF folder_path # <<>>
    THEN _get_drive_item_url(sid, did, Quote(folder_path)) \o <<":/children">>
    ELSE _get_drive_root_url(sid, did) \o <<"/children">>

\* {"Authorization": f"Bearer {self.access_token}", ...}
_get_headers(tok) == <<"Bearer ">> \o tok

Request(method, url, auth, body) ==
    [method |-> method, url |-> url, auth |-> auth, body |-> body]

(***************************************************************************)
(* The remote drive: items 1..Len(name) in the order the remote lists      *)
(* them, parent[i] the folder holding item i (0: the drive root), link[i]  *)
(* whether the resource of item i carries a download link and content[i]   *)
(* the bytes of a file.  The remote keeps the tree acyclic, holds items    *)
(* only in folders and keeps the names inside one folder distinct.         *)
(* colon_root tells whether the remote resolves the address "root:/", an   *)
(* item address with an empty path, to the root folder or answers 404.     *)
(***************************************************************************)
NodesOf(rt) == 1..Len(rt.name)

WellFormed(rt) ==
    /\ \A i \in NodesOf(rt) :
          /\ rt.parent[i] < i
          /\ rt.parent[i] # 0 => rt.kind[rt.parent[i]] = "folder"
    /\ \A i, j \in NodesOf(rt) :
          (i # j /\ rt.parent[i] = rt.parent[j]) => rt.name[i] # rt.name[j]

Trees(n) ==
    UNION { { rt \in [parent : [1..k -> 0..(n - 1)],
                      name   : [1..k -> Names],
                      kind   : [1..k -> Kinds],
                      link   : {[i \in 1..k |-> TRUE]},
                      content : {[i \in 1..k |-> <<"bytes", Digits[i]>>]},
                      colon_root : {FALSE}] :
                WellFormed(rt) } : k \in 0..n }

\* the same drives with any of their files listed without a download link,
\* on a remote that resolves "root:/" and on one that does not
LinkTrees(n) ==
    UNION { { [rt EXCEPT !.link = l, !.colon_root = c] :
                l \in { f \in [NodesOf(rt) -> BOOLEAN] :
                           \A i \in NodesOf(rt) : rt.kind[i] # "file" => f[i] },
                c \in BOOLEAN } :
            rt \in Trees(n) }

\* the path that addresses item i (<<>> addresses the root, item 0)
RECURSIVE NodePath(_, _)
NodePath(rt, i) ==
    IF i = 0 THEN <<>> ELSE JoinPath(NodePath(rt, rt.parent[i]), rt.name[i])

\* the item a path addresses, -1 when the drive holds none there
Lookup(rt, path) ==
    IF path = <<>> THEN 0
    ELSE IF \E i \in NodesOf(rt) : NodePath(rt, i) = path
         THEN CHOOSE i \in NodesOf(rt) : NodePath(rt, i) = path
         ELSE -1

FolderPaths(rt) ==
    {<<>>} \cup { NodePath(rt, i) : i \in { j \in NodesOf(rt) : rt.kind[j] = "folder" } }

ItemPaths(rt) == { NodePath(rt, i) : i \in NodesOf(rt) }

\* the driveItem resource the remote answers for item i: the "file" and
\* "folder" facets are keys that are present or absent
ItemJson(rt, did, i) ==
    [ name        |-> rt.name[i],
      id          |-> <<"item", Digits[i]>>,
      file        |-> rt.kind[i] = "file",
      folder      |-> rt.kind[i] = "folder",
      parent_path |-> <<"/drives/">> \o did \o <<"/root", ":">>
                        \o (IF rt.parent[i] = 0 THEN <<>>
                            ELSE <<"/">> \o NodePath(rt, rt.parent[i])),
      downloadUrl |-> IF rt.link[i] THEN <<"https://download/", Digits[i]>>
                      ELSE None ]

\* the driveItem resource of the root folder
RootJson(rt, did) ==
    [ name        |-> <<"root">>,
      id          |-> <<"item", "root">>,
      file        |-> FALSE,
      folder      |-> TRUE,
      parent_path |-> <<"/drives/">> \o did,
      downloadUrl |-> None ]

\* the children of item p, in the remote's order
ChildrenOf(rt, p) == SelectSeq([i \in NodesOf(rt) |-> i], LAMBDA i : rt.parent[i] = p)

\* the path a children URL addresses, as the remote decodes it
ChildrenUrlPath(url) ==
    IF url[Len(url)] = "/children" THEN <<>>
    ELSE Unquote(SubSeq(url, 8, Len(url) - 1))

\* GET <children url>: the listing of the folder, 404 when there is none
RemoteChildren(rt, did, url) ==
    LET p == Lookup(rt, ChildrenUrlPath(url))
        c == ChildrenOf(rt, p)
    IN IF p = -1 THEN [status |-> 404, value |-> <<>>]
       ELSE [status |-> 200,
             value  |-> [k \in 1..Len(c) |-> ItemJson(rt, did, c[k])]]

(***************************************************************************)
(* What an operation did: the requests it issued, whether it returned or   *)
(* raised, the exception and the returned value.  cx is what the operation *)
(* reads: the session fields, the remote drive and the request (counted    *)
(* from 1 within the operation, 0: none) the remote answers with status    *)
(* 500.                                                                    *)
(***************************************************************************)
Ctx(tok, sid, did, rt, fault) ==
    [tok |-> tok, sid |-> sid, did |-> did, remote |-> rt, fault |-> fault]

NoError == [type |-> "none", msg |-> "", status |-> 0]
HTTPError(status) == [type |-> "HTTPError", msg |-> "", status |-> status]
Exception(msg) == [type |-> "Exception", msg |-> msg, status |-> 0]

\* events: every side effect in the order it happened, a request as
\* [ev |-> "request", n |-> its place in calls], a local file system call as
\* [ev |-> "makedirs" | "write" | "read", path |-> .., data |-> ..]
Started == [calls |-> <<>>, events |-> <<>>, ok |-> TRUE, err |-> NoError, ret |-> <<>>]

Raise(acc, err) == [acc EXCEPT !.ok = FALSE, !.err = err, !.ret = None]

Issue(acc, req) ==
    [acc EXCEPT !.calls = Append(@, req),
                !.events = Append(@, [ev |-> "request", n |-> Len(acc.calls) + 1])]

Local(acc, ev, path, data) ==
    [acc EXCEPT !.events = Append(@, [ev |-> ev, path |-> path, data |-> data])]

\* the answer to the request just issued: the remote's, unless it is the
\* one request the remote rejects
Answer(cx, acc, natural) ==
    IF cx.fault = Len(acc.calls) THEN [status |-> 500, value |-> <<>>] ELSE natural

\* raise Exception("Drive ID not set. Call get_drive_id() first.")
DriveIdNotSet == Raise(Started, Exception("Drive ID not set"))

(***************************************************************************)
(* ItemInfo and the searches.                                              *)
(***************************************************************************)
\* parent_path.split(":")[-1]
RECURSIVE AfterLastColon(_)
AfterLastColon(s) ==
    IF \E i \in 1..Len(s) : s[i] = ":"
    THEN AfterLastColon(Tail(s))
    ELSE s

\* an ItemInfo whose path is the parent path as it is and the name
_create_item_info_from_api_response_whole_parent(item) ==
    [ name |-> item.name,
      path |-> IF item.parent_path # <<>>
               THEN item.parent_path \o <<"/">> \o item.name
               ELSE item.name,
      id   |-> item.id ]

_create_item_info_from_api_response(item) ==
    [ name |-> item.name,
      path |-> IF item.parent_path # <<>>
               THEN AfterLastColon(item.parent_path) \o <<"/">> \o item.name
               ELSE item.name,
      id   |-> item.id ]

\* a normalisation that leaves every suffix as it is
NormalizeSuffix_never(suffix) == suffix

\* a normalisation without the "suffix and" test
NormalizeSuffix_always(suffix) ==
    IF ~StartsWith(suffix, <<".">>) THEN <<".">> \o suffix ELSE suffix

\* if suffix and not suffix.startswith('.'): suffix = f".{suffix}"
NormalizeSuffix(suffix) ==
    IF suffix # <<>> /\ ~StartsWith(suffix, <<".">>) THEN <<".">> \o suffix ELSE suffix

\* a filter that forgets the marker
RECURSIVE FilterItems_any_kind(_, _, _)
FilterItems_any_kind(items, marker, suffix) ==
    IF items = <<>> THEN <<>>
    ELSE (IF EndsWith(Head(items).name, suffix)
          THEN <<_create_item_info_from_api_response(Head(items))>> ELSE <<>>)
         \o FilterItems_any_kind(Tail(items), marker, suffix)

\* the items of a listing an "if <marker> in item" / endswith filter keeps
RECURSIVE FilterItems(_, _, _)
FilterItems(items, marker, suffix) ==
    IF items = <<>> THEN <<>>
    ELSE LET item == Head(items)
             keep == /\ IF marker = "file" THEN item.file ELSE item.folder
                     /\ EndsWith(item.name, suffix)
         IN (IF keep THEN <<_create_item_info_from_api_response(item)>> ELSE <<>>)
            \o FilterItems(Tail(items), marker, suffix)

\* a search that goes on to list the folders of the listing
SearchChildren_descending(cx, marker, suffix, folder_path) ==
    IF cx.did = None THEN DriveIdNotSet
    ELSE LET sfx  == NormalizeSuffix(suffix)
             url  == _get_drive_children_url(cx.sid, cx.did, folder_path)
             acc  == Issue(Started, Request("GET", url, _get_headers(cx.tok), None))
             resp == Answer(cx, acc, RemoteChildren(cx.remote, cx.did, url))
             subs == SelectSeq(resp.value, LAMBDA item : item.folder)
             RECURSIVE ListAll(_, _)
             ListAll(k, a) ==
                 IF k > Len(subs) THEN a
                 ELSE ListAll(k + 1,
                              Issue(a, Request("GET",
                                               _get_drive_children_url(
                                                   cx.sid, cx.did,
                                                   JoinPath(folder_path, subs[k].name)),
                                               _get_headers(cx.tok), None)))
         IN IF resp.status # 200 THEN Raise(acc, HTTPError(resp.status))
            ELSE [ListAll(1, acc) EXCEPT !.ret = FilterItems(resp.value, marker, sfx)]

\* the body shared by search_files_by_suffix and search_folders_by_suffix
SearchChildren(cx, marker, suffix, folder_path) ==
    IF cx.did = None THEN DriveIdNotSet
    ELSE LET sfx  == NormalizeSuffix(suffix)
             url  == _get_drive_children_url(cx.sid, cx.did, folder_path)
             acc  == Issue(Started, Request("GET", url, _get_headers(cx.tok), None))
             resp == Answer(cx, acc, RemoteChildren(cx.remote, cx.did, url))
         IN IF resp.status # 200 THEN Raise(acc, HTTPError(resp.status))
            ELSE [acc EXCEPT !.ret = FilterItems(resp.value, marker, sfx)]

search_files_by_suffix(cx, suffix, folder_path) ==
    SearchChildren(cx, "file", suffix, folder_path)

search_folders_by_suffix(cx, suffix, folder_path) ==
    SearchChildren(cx, "folder", suffix, folder_path)

RECURSIVE search_folder_for_files(_, _, _, _)
RECURSIVE files_loop(_, _, _, _, _, _)

\* the closure of search_files_by_suffix_recursive; acc.ret is matching_files
search_folder_for_files(cx, suffix, current_path, acc) ==
    LET url  == _get_drive_children_url(cx.sid, cx.did, current_path)
        acc1 == Issue(acc, Request("GET", url, _get_headers(cx.tok), None))
        resp == Answer(cx, acc1, RemoteChildren(cx.remote, cx.did, url))
    IN IF resp.status # 200 THEN Raise(acc1, HTTPError(resp.status))
       ELSE files_loop(cx, suffix, current_path, resp.value, 1, acc1)

\* a loop that descends into whatever is not a file
files_loop_descend_non_files(cx, suffix, current_path, items, k, acc) ==
    IF ~acc.ok \/ k > Len(items) THEN acc
    ELSE LET item == items[k]
             acc1 ==
                 IF item.file
                 THEN IF EndsWith(item.name, suffix)
                      THEN [acc EXCEPT !.ret =
                               Append(@, _create_item_info_from_api_response(item))]
                      ELSE acc
                 ELSE search_folder_for_files(
                          cx, suffix, JoinPath(current_path, item.name), acc)
         IN files_loop(cx, suffix, current_path, items, k + 1, acc1)

\* a loop that goes on to the next item after a failed listing
files_loop_continue(cx, suffix, current_path, items, k, acc) ==
    IF k > Len(items) THEN acc
    ELSE LET item == items[k]
             acc1 ==
                 IF item.file
                 THEN IF EndsWith(item.name, suffix)
                      THEN [acc EXCEPT !.ret =
                               Append(@, _create_item_info_from_api_response(item))]
                      ELSE acc
                 ELSE IF item.folder
                 THEN search_folder_for_files(
                          cx, suffix, JoinPath(current_path, item.name), acc)
                 ELSE acc
         IN files_loop(cx, suffix, current_path, items, k + 1, acc1)

\* its "for item in items" from the k-th item on
files_loop(cx, suffix, current_path, items, k, acc) ==
    IF ~acc.ok \/ k > Len(items) THEN acc
    ELSE LET item == items[k]
             acc1 ==
                 IF item.file
                 THEN IF EndsWith(item.name, suffix)
                      THEN [acc EXCEPT !.ret =
                               Append(@, _create_item_info_from_api_response(item))]
                      ELSE acc
                 ELSE IF item.folder
                 THEN search_folder_for_files(
                          cx, suffix, JoinPath(current_path, item.name), acc)
                 ELSE acc
         IN files_loop(cx, suffix, current_path, items, k + 1, acc1)

search_files_by_suffix_recursive(cx, suffix, folder_path) ==
    IF cx.did = None THEN DriveIdNotSet
    ELSE search_folder_for_files(cx, NormalizeSuffix(suffix), folder_path, Started)

RECURSIVE search_folder_for_folders(_, _, _, _)
RECURSIVE folders_loop(_, _, _, _, _, _)

\* the closure of search_folders_by_suffix_recursive; acc.ret is matching_folders
search_folder_for_folders(cx, suffix, current_path, acc) ==
    LET url  == _get_drive_children_url(cx.sid, cx.did, current_path)
        acc1 == Issue(acc, Request("GET", url, _get_headers(cx.tok), None))
        resp == Answer(cx, acc1, RemoteChildren(cx.remote, cx.did, url))
    IN IF resp.status # 200 THEN Raise(acc1, HTTPError(resp.status))
       ELSE folders_loop(cx, suffix, current_path, resp.value, 1, acc1)

\* a loop that lists a folder's inside before it appends the folder
folders_loop_post_order(cx, suffix, current_path, items, k, acc) ==
    IF ~acc.ok \/ k > Len(items) THEN acc
    ELSE LET item == items[k]
             inner == search_folder_for_folders(
                          cx, suffix, JoinPath(current_path, item.name), acc)
             acc1 ==
                 IF item.folder
                 THEN IF inner.ok /\ EndsWith(item.name, suffix)
                      THEN [inner EXCEPT !.ret =
                               Append(@, _create_item_info_from_api_response(item))]
                      ELSE inner
                 ELSE acc
         IN folders_loop(cx, suffix, current_path, items, k + 1, acc1)

\* a loop that descends only into the folders that did not match
folders_loop_skip_matched(cx, suffix, current_path, items, k, acc) ==
    IF ~acc.ok \/ k > Len(items) THEN acc
    ELSE LET item == items[k]
             acc1 ==
                 IF item.folder
                 THEN IF EndsWith(item.name, suffix)
                      THEN [acc EXCEPT !.ret =
                               Append(@, _create_item_info_from_api_response(item))]
                      ELSE search_folder_for_folders(
                               cx, suffix, JoinPath(current_path, item.name), acc)
                 ELSE acc
         IN folders_loop(cx, suffix, current_path, items, k + 1, acc1)

\* its "for item in items" from the k-th item on
folders_loop(cx, suffix, current_path, items, k, acc) ==
    IF ~acc.ok \/ k > Len(items) THEN acc
    ELSE LET item == items[k]
             acc1 ==
                 IF item.folder
                 THEN LET matched ==
                              IF EndsWith(item.name, suffix)
                              THEN [acc EXCEPT !.ret =
                                       Append(@, _create_item_info_from_api_response(item))]
                              ELSE acc
                      IN search_folder_for_folders(
                             cx, suffix, JoinPath(current_path, item.name), matched)
                 ELSE acc
         IN folders_loop(cx, suffix, current_path, items, k + 1, acc1)

search_folders_by_suffix_recursive(cx, suffix, folder_path) ==
    IF cx.did = None THEN DriveIdNotSet
    ELSE search_folder_for_folders(cx, NormalizeSuffix(suffix), folder_path, Started)

(***************************************************************************)
(* The remote's answers to the item requests.                              *)
(***************************************************************************)
\* the path an item URL (root:/<encoded path>) addresses
ItemUrlPath(url) == Unquote(SubSeq(url, 8, Len(url)))

\* the bytes the remote holds for file i
ContentOf(rt, i) == rt.content[i]

\* GET <item url>: the item's resource, 404 when the drive holds none there
RemoteItem(rt, did, url) ==
    LET i == Lookup(rt, ItemUrlPath(url))
    IN IF i \in NodesOf(rt) THEN [status |-> 200, value |-> ItemJson(rt, did, i)]
       ELSE IF i = 0 /\ rt.colon_root
            THEN [status |-> 200, value |-> RootJson(rt, did)]
       ELSE [status |-> 404, value |-> <<>>]

\* GET <download link>: the file's bytes
RemoteContent(rt, url) == [status |-> 200, value |-> ContentOf(rt, IndexOf(url[2]))]

\* DELETE <item url>
RemoteDelete(rt, did, url) ==
    IF Lookup(rt, ItemUrlPath(url)) \in NodesOf(rt)
    THEN [status |-> 204, value |-> <<>>]
    ELSE [status |-> 404, value |-> <<>>]

\* path.split("/")[-1]
RECURSIVE LastSegment(_)
LastSegment(path) ==
    IF \E i \in 1..Len(path) : path[i] = "/" THEN LastSegment(Tail(path)) ELSE path

\* the path without its last segment and the "/" before it
ParentPath(path) ==
    IF Len(path) = Len(LastSegment(path)) THEN <<>>
    ELSE SubSeq(path, 1, Len(path) - Len(LastSegment(path)) - 1)

\* the path a content URL (root:/<encoded path>:/content) addresses
ContentUrlPath(url) == Unquote(SubSeq(url, 8, Len(url) - 1))

\* PUT <item url>:/content: creates or replaces the file when the folder
\* that is to hold it exists; an address with an empty segment names no
\* place of the drive, and an item that is no file is not replaced
RemotePut(rt, did, url, body) ==
    LET path == ContentUrlPath(url)
        p    == Lookup(rt, ParentPath(path))
        i    == Lookup(rt, path)
    IN IF LastSegment(path) = <<>> \/ path # JoinPath(ParentPath(path), LastSegment(path))
       THEN [status |-> 400, value |-> <<>>]
       ELSE IF p = -1 \/ (p # 0 /\ rt.kind[p] # "folder")
       THEN [status |-> 404, value |-> <<>>]
       ELSE IF i \in NodesOf(rt) /\ rt.kind[i] # "file"
       THEN [status |-> 409, value |-> <<>>]
       ELSE [status |-> 201,
             value  |-> [name |-> LastSegment(path), path |-> path, content |-> body]]

\* item i lies somewhere under item p (0: the root)
RECURSIVE Within(_, _, _)
Within(rt, i, p) ==
    \/ rt.parent[i] = p
    \/ rt.parent[i] # 0 /\ Within(rt, rt.parent[i], p)

\* the drive after an accepted PUT of body at path: the file there holds
\* body, as a new last item of its folder when there was none
Stored(rt, path, body) ==
    LET i == Lookup(rt, path)
    IN IF i \in NodesOf(rt)
       THEN [rt EXCEPT !.content[i] = body, !.link[i] = TRUE]
       ELSE [rt EXCEPT !.parent  = Append(@, Lookup(rt, ParentPath(path))),
                       !.name    = Append(@, LastSegment(path)),
                       !.kind    = Append(@, "file"),
                       !.link    = Append(@, TRUE),
                       !.content = Append(@, body)]

\* the drive after an accepted DELETE of item d: d and all it holds are
\* gone, the other items keep their order
Removed(rt, d) ==
    LET keep == SelectSeq([i \in NodesOf(rt) |-> i],
                          LAMBDA i : i # d /\ ~Within(rt, i, d))
        rank(i) == IF i = 0 THEN 0 ELSE CHOOSE k \in 1..Len(keep) : keep[k] = i
    IN [rt EXCEPT !.parent  = [k \in 1..Len(keep) |-> rank(rt.parent[keep[k]])],
                  !.name    = [k \in 1..Len(keep) |-> rt.name[keep[k]]],
                  !.kind    = [k \in 1..Len(keep) |-> rt.kind[keep[k]]],
                  !.link    = [k \in 1..Len(keep) |-> rt.link[keep[k]]],
                  !.content = [k \in 1..Len(keep) |-> rt.content[keep[k]]]]

\* the drive after the remote answered req with success
RemoteAfter(rt, req) ==
    CASE req.method = "PUT"    -> Stored(rt, ContentUrlPath(req.url), req.body)
      [] req.method = "DELETE" -> Removed(rt, Lookup(rt, ItemUrlPath(req.url)))
      [] OTHER                 -> rt

\* PATCH <items/id> <<"parentReference.id", id>>: rejected unless the
\* destination is a folder that holds no item of that name
RemotePatch(rt, did, url, body) ==
    LET i == IndexOf(url[Len(url)])
        d == IndexOf(body[Len(body)])
    IN IF /\ i \in NodesOf(rt)
          /\ d \in NodesOf(rt)
          /\ d # i
          /\ rt.kind[d] = "folder"
          /\ \A j \in NodesOf(rt) : rt.parent[j] = d => rt.name[j] # rt.name[i]
       THEN [status |-> 200, value |-> <<>>]
       ELSE [status |-> 400, value |-> <<>>]

(***************************************************************************)
(* Identity resolution.                                                    *)
(***************************************************************************)
\* raise_for_status
IsError(resp) == resp.status >= 400

\* get_site_id: resp is the remote's answer to the site lookup.  ret is the
\* value assigned to self.site_id.
get_site_id(cx, site_path, resp) ==
    LET acc == Issue(Started, Request("GET", _get_site_url(site_path),
                                      _get_headers(cx.tok), None))
    IN IF IsError(resp) THEN Raise(acc, HTTPError(resp.status))
       ELSE [acc EXCEPT !.ret = resp.id]

\* a loop that keeps the last drive of that name instead of returning at the
\* first
RECURSIVE FindDrive_last(_, _)
FindDrive_last(drives, drive_name) ==
    IF drives = <<>> THEN None
    ELSE IF drives[Len(drives)].name = drive_name THEN drives[Len(drives)].id
    ELSE FindDrive_last(SubSeq(drives, 1, Len(drives) - 1), drive_name)

\* the "for drive in drives" of get_drive_id: the id of the first drive of
\* that name, None when the loop ends without a return
RECURSIVE FindDrive(_, _)
FindDrive(drives, drive_name) ==
    IF drives = <<>> THEN None
    ELSE IF Head(drives).name = drive_name THEN Head(drives).id
    ELSE FindDrive(Tail(drives), drive_name)

\* get_drive_id without its "if not self.site_id" check
get_drive_id_unchecked(cx, drive_name, resp) ==
    LET acc == Issue(Started, Request("GET", _get_drives_url(cx.sid),
                                      _get_headers(cx.tok), None))
        drives == resp.value
    IN IF IsError(resp) THEN Raise(acc, HTTPError(resp.status))
       ELSE IF FindDrive(drives, drive_name) # None
            THEN [acc EXCEPT !.ret = FindDrive(drives, drive_name)]
       ELSE IF drives # <<>>
            THEN [acc EXCEPT !.ret = drives[1].id]
       ELSE Raise(acc, Exception("No drives found"))

\* get_drive_id without the fallback to the first drive
get_drive_id_no_fallback(cx, drive_name, resp) ==
    IF cx.sid = None THEN Raise(Started, Exception("Site ID not set"))
    ELSE LET acc == Issue(Started, Request("GET", _get_drives_url(cx.sid),
                                           _get_headers(cx.tok), None))
             drives == resp.value
         IN IF IsError(resp) THEN Raise(acc, HTTPError(resp.status))
            ELSE IF FindDrive(drives, drive_name) # None
                 THEN [acc EXCEPT !.ret = FindDrive(drives, drive_name)]
            ELSE Raise(acc, Exception("No drives found"))

\* get_drive_id: resp is the remote's answer to the drive listing.  ret is
\* the value assigned to self.drive_id.
get_drive_id(cx, drive_name, resp) ==
    IF cx.sid = None THEN Raise(Started, Exception("Site ID not set"))
    ELSE LET acc == Issue(Started, Request("GET", _get_drives_url(cx.sid),
                                           _get_headers(cx.tok), None))
             drives == resp.value
         IN IF IsError(resp) THEN Raise(acc, HTTPError(resp.status))
            ELSE IF FindDrive(drives, drive_name) # None
                 THEN [acc EXCEPT !.ret = FindDrive(drives, drive_name)]
            ELSE IF drives # <<>>
                 THEN [acc EXCEPT !.ret = drives[1].id]
            ELSE Raise(acc, Exception("No drives found"))

(***************************************************************************)
(* Download.                                                               *)
(***************************************************************************)
\* os.path.join(a, b)
OsPathJoin(a, b) ==
    IF StartsWith(b, <<"/">>) THEN b
    ELSE IF a = <<>> \/ EndsWith(a, <<"/">>) THEN a \o b
    ELSE a \o <<"/">> \o b

\* a download that never writes to the destination
_download_file_internal_in_memory(cx, acc, file_path, local_path, item_info) ==
    LET acc1 == Issue(acc, Request("GET", item_info.downloadUrl, None, None))
        resp == Answer(cx, acc1, RemoteContent(cx.remote, item_info.downloadUrl))
    IN IF item_info.downloadUrl = None THEN Raise(acc, Exception("KeyError"))
       ELSE IF IsError(resp) THEN Raise(acc1, HTTPError(resp.status))
       ELSE [acc1 EXCEPT !.ret = [BytesIO |-> resp.value]]

\* item_info["@microsoft.graph.downloadUrl"] is a KeyError without the link
_download_file_internal(cx, acc, file_path, local_path, item_info) ==
    LET acc1 == Issue(acc, Request("GET", item_info.downloadUrl, None, None))
        resp == Answer(cx, acc1, RemoteContent(cx.remote, item_info.downloadUrl))
    IN IF item_info.downloadUrl = None THEN Raise(acc, Exception("KeyError"))
       ELSE IF IsError(resp) THEN Raise(acc1, HTTPError(resp.status))
       ELSE IF local_path # None /\ local_path # <<>>
            THEN [Local(acc1, "write", local_path, resp.value) EXCEPT !.ret = local_path]
            ELSE [acc1 EXCEPT !.ret = [BytesIO |-> resp.value]]

RECURSIVE download_folder_recursive(_, _, _, _)
RECURSIVE download_loop(_, _, _, _, _, _)

download_folder_recursive(cx, sharepoint_path, local_path, acc) ==
    LET url  == _get_drive_children_url(cx.sid, cx.did, sharepoint_path)
        acc1 == Issue(acc, Request("GET", url, _get_headers(cx.tok), None))
        resp == Answer(cx, acc1, RemoteChildren(cx.remote, cx.did, url))
    IN IF IsError(resp) THEN Raise(acc1, HTTPError(resp.status))
       ELSE download_loop(cx, sharepoint_path, local_path, resp.value, 1, acc1)

\* a loop that sends the session's headers to the download link too
download_loop_authorized_fetch(cx, sharepoint_path, local_path, items, k, acc) ==
    IF ~acc.ok \/ k > Len(items) THEN acc
    ELSE LET item == items[k]
             fetch == Issue(acc, Request("GET", item.downloadUrl,
                                         _get_headers(cx.tok), None))
             resp  == Answer(cx, fetch, RemoteContent(cx.remote, item.downloadUrl))
             acc1 ==
                 IF item.file
                 THEN IF item.downloadUrl # None
                      THEN IF IsError(resp) THEN Raise(fetch, HTTPError(resp.status))
                           ELSE Local(fetch, "write",
                                      OsPathJoin(local_path, item.name), resp.value)
                      ELSE acc
                 ELSE IF item.folder
                 THEN download_folder_recursive(
                          cx, JoinPath(sharepoint_path, item.name),
                          OsPathJoin(local_path, item.name),
                          Local(acc, "makedirs", OsPathJoin(local_path, item.name), None))
                 ELSE acc
         IN download_loop(cx, sharepoint_path, local_path, items, k + 1, acc1)

\* a loop that creates the local subfolder after the subfolder's download
download_loop_makedirs_after(cx, sharepoint_path, local_path, items, k, acc) ==
    IF ~acc.ok \/ k > Len(items) THEN acc
    ELSE LET item == items[k]
             fetch == Issue(acc, Request("GET", item.downloadUrl, None, None))
             resp  == Answer(cx, fetch, RemoteContent(cx.remote, item.downloadUrl))
             inner == download_folder_recursive(
                          cx, JoinPath(sharepoint_path, item.name),
                          OsPathJoin(local_path, item.name), acc)
             acc1 ==
                 IF item.file
                 THEN IF item.downloadUrl # None
                      THEN IF IsError(resp) THEN Raise(fetch, HTTPError(resp.status))
                           ELSE Local(fetch, "write",
                                      OsPathJoin(local_path, item.name), resp.value)
                      ELSE acc
                 ELSE IF item.folder
                 THEN IF inner.ok
                      THEN Local(inner, "makedirs",
                                 OsPathJoin(local_path, item.name), None)
                      ELSE inner
                 ELSE acc
         IN download_loop(cx, sharepoint_path, local_path, items, k + 1, acc1)

\* its "for item in items" from the k-th item on
download_loop(cx, sharepoint_path, local_path, items, k, acc) ==
    IF ~acc.ok \/ k > Len(items) THEN acc
    ELSE LET item == items[k]
             fetch == Issue(acc, Request("GET", item.downloadUrl, None, None))
             resp  == Answer(cx, fetch, RemoteContent(cx.remote, item.downloadUrl))
             acc1 ==
                 IF item.file
                 THEN IF item.downloadUrl # None
                      THEN IF IsError(resp) THEN Raise(fetch, HTTPError(resp.status))
                           ELSE Local(fetch, "write",
                                      OsPathJoin(local_path, item.name), resp.value)
                      ELSE acc
                 ELSE IF item.folder
                 THEN download_folder_recursive(
                          cx, JoinPath(sharepoint_path, item.name),
                          OsPathJoin(local_path, item.name),
                          Local(acc, "makedirs", OsPathJoin(local_path, item.name), None))
                 ELSE acc
         IN download_loop(cx, sharepoint_path, local_path, items, k + 1, acc1)

\* a download that names the default directory after the whole path
_download_folder_internal_whole_path(cx, acc, folder_path, local_directory) ==
    LET dir  == IF local_directory = None THEN folder_path
                ELSE local_directory
        acc1 == download_folder_recursive(cx, folder_path, dir,
                                          Local(acc, "makedirs", dir, None))
    IN IF dir = <<>> THEN Raise(acc, Exception("FileNotFoundError"))
       ELSE IF acc1.ok THEN [acc1 EXCEPT !.ret = dir] ELSE acc1

\* os.makedirs("") raises FileNotFoundError
_download_folder_internal(cx, acc, folder_path, local_directory) ==
    LET dir  == IF local_directory = None THEN LastSegment(folder_path)
                ELSE local_directory
        acc1 == download_folder_recursive(cx, folder_path, dir,
                                          Local(acc, "makedirs", dir, None))
    IN IF dir = <<>> THEN Raise(acc, Exception("FileNotFoundError"))
       ELSE IF acc1.ok THEN [acc1 EXCEPT !.ret = dir] ELSE acc1

\* download_item that takes whatever is not a file for a folder
download_item_else_folder(cx, item_path, local_path) ==
    IF cx.did = None THEN DriveIdNotSet
    ELSE LET url  == _get_drive_item_url(cx.sid, cx.did, Quote(item_path))
             acc  == Issue(Started, Request("GET", url, _get_headers(cx.tok), None))
             resp == Answer(cx, acc, RemoteItem(cx.remote, cx.did, url))
         IN IF IsError(resp) THEN Raise(acc, HTTPError(resp.status))
            ELSE IF resp.value.file
                 THEN _download_file_internal(cx, acc, item_path, local_path, resp.value)
            ELSE _download_folder_internal(cx, acc, item_path, local_path)

download_item(cx, item_path, local_path) ==
    IF cx.did = None THEN DriveIdNotSet
    ELSE LET url  == _get_drive_item_url(cx.sid, cx.did, Quote(item_path))
             acc  == Issue(Started, Request("GET", url, _get_headers(cx.tok), None))
             resp == Answer(cx, acc, RemoteItem(cx.remote, cx.did, url))
         IN IF IsError(resp) THEN Raise(acc, HTTPError(resp.status))
            ELSE IF resp.value.file
                 THEN _download_file_internal(cx, acc, item_path, local_path, resp.value)
            ELSE IF resp.value.folder
                 THEN _download_folder_internal(cx, acc, item_path, local_path)
            ELSE Raise(acc, Exception("Unknown item type"))

download_file(cx, file_path, local_path) == download_item(cx, file_path, local_path)

download_folder(cx, folder_path, local_directory) ==
    download_item(cx, folder_path, local_directory)

(***************************************************************************)
(* Upload, delete, move.                                                   *)
(***************************************************************************)
\* an upload that does not quote the path
upload_file_from_memory_unquoted(cx, acc, file_content, sharepoint_path, file_name) ==
    IF cx.did = None THEN Raise(acc, Exception("Drive ID not set"))
    ELSE LET encoded_path == IF sharepoint_path # <<>>
                             THEN sharepoint_path \o <<"/">> \o file_name
                             ELSE file_name
             url  == _get_drive_item_content_url(cx.sid, cx.did, encoded_path)
             acc1 == Issue(acc, Request("PUT", url, <<"Bearer ">> \o cx.tok, file_content))
             resp == Answer(cx, acc1, RemotePut(cx.remote, cx.did, url, file_content))
         IN IF IsError(resp) THEN Raise(acc1, HTTPError(resp.status))
            ELSE [acc1 EXCEPT !.ret = resp.value]

\* an upload that addresses the bare file name whatever the folder
upload_file_from_memory_bare_name(cx, acc, file_content, sharepoint_path, file_name) ==
    IF cx.did = None THEN Raise(acc, Exception("Drive ID not set"))
    ELSE LET encoded_path == Quote(file_name)
             url  == _get_drive_item_content_url(cx.sid, cx.did, encoded_path)
             acc1 == Issue(acc, Request("PUT", url, <<"Bearer ">> \o cx.tok, file_content))
             resp == Answer(cx, acc1, RemotePut(cx.remote, cx.did, url, file_content))
         IN IF IsError(resp) THEN Raise(acc1, HTTPError(resp.status))
            ELSE [acc1 EXCEPT !.ret = resp.value]

upload_file_from_memory(cx, acc, file_content, sharepoint_path, file_name) ==
    IF cx.did = None THEN Raise(acc, Exception("Drive ID not set"))
    ELSE LET encoded_path == IF sharepoint_path # <<>>
                             THEN Quote(sharepoint_path \o <<"/">> \o file_name)
                             ELSE Quote(file_name)
             url  == _get_drive_item_content_url(cx.sid, cx.did, encoded_path)
             acc1 == Issue(acc, Request("PUT", url, <<"Bearer ">> \o cx.tok, file_content))
             resp == Answer(cx, acc1, RemotePut(cx.remote, cx.did, url, file_content))
         IN IF IsError(resp) THEN Raise(acc1, HTTPError(resp.status))
            ELSE [acc1 EXCEPT !.ret = resp.value]

\* local is the local file at local_file_path: [exists, content]
upload_file(cx, local_file_path, local, sharepoint_path, file_name) ==
    IF cx.did = None THEN DriveIdNotSet
    ELSE LET name == IF file_name = None THEN LastSegment(local_file_path)
                     ELSE file_name
             acc  == Local(Started, "read", local_file_path, None)
         IN IF ~local.exists THEN Raise(acc, Exception("FileNotFoundError"))
            ELSE upload_file_from_memory(cx, acc, local.content, sharepoint_path, name)

\* delete_item without its "if not self.drive_id" check
delete_item_unchecked(cx, item_path) ==
    LET url  == _get_drive_item_url(cx.sid, cx.did, Quote(item_path))
        acc  == Issue(Started, Request("DELETE", url, _get_headers(cx.tok), None))
        resp == Answer(cx, acc, RemoteDelete(cx.remote, cx.did, url))
    IN IF IsError(resp) THEN Raise(acc, HTTPError(resp.status))
       ELSE [acc EXCEPT !.ret = <<"True">>]

\* delete_item that takes an absent item for a deleted one
delete_item_absent_ok(cx, item_path) ==
    IF cx.did = None THEN DriveIdNotSet
    ELSE LET url  == _get_drive_item_url(cx.sid, cx.did, Quote(item_path))
             acc  == Issue(Started, Request("DELETE", url, _get_headers(cx.tok), None))
             resp == Answer(cx, acc, RemoteDelete(cx.remote, cx.did, url))
         IN IF IsError(resp) /\ resp.status # 404 THEN Raise(acc, HTTPError(resp.status))
            ELSE [acc EXCEPT !.ret = <<"True">>]

delete_item(cx, item_path) ==
    IF cx.did = None THEN DriveIdNotSet
    ELSE LET url  == _get_drive_item_url(cx.sid, cx.did, Quote(item_path))
             acc  == Issue(Started, Request("DELETE", url, _get_headers(cx.tok), None))
             resp == Answer(cx, acc, RemoteDelete(cx.remote, cx.did, url))
         IN IF IsError(resp) THEN Raise(acc, HTTPError(resp.status))
            ELSE [acc EXCEPT !.ret = <<"True">>]

delete_file(cx, file_path) == delete_item(cx, file_path)

delete_folder(cx, folder_path) == delete_item(cx, folder_path)

\* a resolution without its except clauses: the HTTPError goes up as it is
_get_item_id_by_path_reraise(cx, acc, item_path) ==
    LET url  == _get_drive_item_url(cx.sid, cx.did, Quote(item_path))
        acc1 == Issue(acc, Request("GET", url, _get_headers(cx.tok), None))
        resp == Answer(cx, acc1, RemoteItem(cx.remote, cx.did, url))
    IN IF IsError(resp) THEN Raise(acc1, HTTPError(resp.status))
       ELSE IF resp.value.id = None \/ resp.value.id = <<>>
            THEN Raise(acc1, Exception("Error retrieving item ID"))
            ELSE [acc1 EXCEPT !.ret = resp.value.id]

\* _get_item_id_by_path: the except clauses turn every failure into a plain
\* Exception; one raised inside an except clause is not caught by the next
_get_item_id_by_path(cx, acc, item_path) ==
    LET url  == _get_drive_item_url(cx.sid, cx.did, Quote(item_path))
        acc1 == Issue(acc, Request("GET", url, _get_headers(cx.tok), None))
        resp == Answer(cx, acc1, RemoteItem(cx.remote, cx.did, url))
    IN IF IsError(resp)
       THEN IF resp.status = 404
            THEN Raise(acc1, Exception("Item not found"))
            ELSE Raise(acc1, [type |-> "Exception", msg |-> "Error getting item ID",
                              status |-> resp.status])
       ELSE IF resp.value.id = None \/ resp.value.id = <<>>
            THEN Raise(acc1, Exception("Error retrieving item ID"))
            ELSE [acc1 EXCEPT !.ret = resp.value.id]

\* move_item that resolves the destination folder before the item
move_item_dest_first(cx, item_path, destination_folder_path) ==
    IF cx.did = None THEN DriveIdNotSet
    ELSE LET r2 == _get_item_id_by_path(cx, Started, destination_folder_path)
             r1 == _get_item_id_by_path(cx, r2, item_path)
             url  == <<GRAPH_API_BASE, "/sites/">> \o cx.sid \o <<"/drives/">> \o cx.did
                        \o <<"/items/">> \o r1.ret
             move_body == <<"parentReference.id">> \o r2.ret
             acc  == Issue(r1, Request("PATCH", url, _get_headers(cx.tok), move_body))
             resp == Answer(cx, acc, RemotePatch(cx.remote, cx.did, url, move_body))
         IN IF ~r2.ok THEN r2
            ELSE IF ~r1.ok THEN r1
            ELSE IF IsError(resp) THEN Raise(acc, HTTPError(resp.status))
            ELSE [acc EXCEPT !.ret = <<"True">>]

move_item(cx, item_path, destination_folder_path) ==
    IF cx.did = None THEN DriveIdNotSet
    ELSE LET r1 == _get_item_id_by_path(cx, Started, item_path)
             r2 == _get_item_id_by_path(cx, r1, destination_folder_path)
             url  == <<GRAPH_API_BASE, "/sites/">> \o cx.sid \o <<"/drives/">> \o cx.did
                        \o <<"/items/">> \o r1.ret
             move_body == <<"parentReference.id">> \o r2.ret
             acc  == Issue(r2, Request("PATCH", url, _get_headers(cx.tok), move_body))
             resp == Answer(cx, acc, RemotePatch(cx.remote, cx.did, url, move_body))
         IN IF ~r1.ok THEN r1
            ELSE IF ~r2.ok THEN r2
            ELSE IF IsError(resp) THEN Raise(acc, HTTPError(resp.status))
            ELSE [acc EXCEPT !.ret = <<"True">>]

move_file(cx, file_path, destination_folder_path) ==
    move_item(cx, file_path, destination_folder_path)

move_folder(cx, folder_path, destination_parent_folder_path) ==
    move_item(cx, folder_path, destination_parent_folder_path)

(***************************************************************************)
(* The state.  last records the operation that ran last: its name, its     *)
(* arguments and what it did.                                              *)
(***************************************************************************)
Session == Ctx(access_token, site_id, drive_id, remote, 0)

Cx(fault) == Ctx(access_token, site_id, drive_id, remote, fault)

Ran(op, args, res) == last' = [op |-> op, args |-> args, res |-> res]

SearchArgs(suffix, path, fault) == [suffix |-> suffix, path |-> path, fault |-> fault]

\* folder paths a caller searches: the drive's folders and one that is absent
SearchPaths(rt) == FolderPaths(rt) \cup {MissingPath}

\* the request of an operation the remote rejects: none, the first, the second
FaultAts == {0, 1, 2}

CallSearchFiles(suffix, path, fault) ==
    /\ Ran("search_files_by_suffix", SearchArgs(suffix, path, fault),
           search_files_by_suffix(Cx(fault), suffix, path))
    /\ UNCHANGED <<access_token, site_id, drive_id, remote, token_acquisitions>>

CallSearchFolders(suffix, path, fault) ==
    /\ Ran("search_folders_by_suffix", SearchArgs(suffix, path, fault),
           search_folders_by_suffix(Cx(fault), suffix, path))
    /\ UNCHANGED <<access_token, site_id, drive_id, remote, token_acquisitions>>

CallSearchFilesRecursive(suffix, path, fault) ==
    /\ Ran("search_files_by_suffix_recursive", SearchArgs(suffix, path, fault),
           search_files_by_suffix_recursive(Cx(fault), suffix, path))
    /\ UNCHANGED <<access_token, site_id, drive_id, remote, token_acquisitions>>

CallSearchFoldersRecursive(suffix, path, fault) ==
    /\ Ran("search_folders_by_suffix_recursive", SearchArgs(suffix, path, fault),
           search_folders_by_suffix_recursive(Cx(fault), suffix, path))
    /\ UNCHANGED <<access_token, site_id, drive_id, remote, token_acquisitions>>

(***************************************************************************)
(* The search specification: a session whose drive is resolved, any remote *)
(* drive of up to MaxNodes items, and one search of it with any suffix,    *)
(* folder path and rejected request.                                       *)
(***************************************************************************)
InitSearch ==
    /\ access_token = Token
    /\ site_id = <<"s1">>
    /\ drive_id = <<"d1">>
    /\ remote \in Trees(MaxNodes)
    /\ token_acquisitions = 1
    /\ \E suffix \in Suffixes, path \in SearchPaths(remote), fault \in FaultAts :
          last = [op |-> "input", args |-> SearchArgs(suffix, path, fault),
                  res |-> Started]

SearchFiles ==
    /\ last.op = "input"
    /\ CallSearchFiles(last.args.suffix, last.args.path, last.args.fault)

SearchFolders ==
    /\ last.op = "input"
    /\ CallSearchFolders(last.args.suffix, last.args.path, last.args.fault)

SearchFilesRecursive ==
    /\ last.op = "input"
    /\ CallSearchFilesRecursive(last.args.suffix, last.args.path, last.args.fault)

SearchFoldersRecursive ==
    /\ last.op = "input"
    /\ CallSearchFoldersRecursive(last.args.suffix, last.args.path, last.args.fault)

NextSearch ==
    \/ SearchFiles
    \/ SearchFolders
    \/ SearchFilesRecursive
    \/ SearchFoldersRecursive

SpecSearch == InitSearch /\ [][NextSearch]_vars

(***************************************************************************)
(* The session specification: a constructed client, any sequence of its    *)
(* operations with any arguments, against the drive SampleDrive.           *)
(***************************************************************************)
\* x.g/ (a folder) holding the file "a g", and an item "a g" at the root
\* that is neither file nor folder
SampleDrive ==
    [ parent |-> <<0, 1, 0>>,
      name   |-> << <<"x", ".", "g">>, <<"a", " ", "g">>, <<"a", " ", "g">> >>,
      kind   |-> <<"folder", "file", "other">>,
      link   |-> <<TRUE, TRUE, TRUE>>,
      content |-> << <<"bytes", "1">>, <<"bytes", "2">>, <<"bytes", "3">> >>,
      colon_root |-> FALSE ]

SessionDrives == {SampleDrive}

SitePaths == { <<>>, <<"/", "s">> }

\* answers to the site lookup
SiteResponses ==
    { [status |-> 200, id |-> s] : s \in SiteIds }
        \cup { [status |-> 404, id |-> None], [status |-> 401, id |-> None] }

DriveEntries == [name : DriveNames, id : DriveIds]

DriveListings == UNION { [1..k -> DriveEntries] : k \in 0..MaxDrives }

\* answers to the drive listing
DriveResponses ==
    { [status |-> 200, value |-> l] : l \in DriveListings }
        \cup { [status |-> 500, value |-> <<>>] }

\* item paths a caller names: the drive's items and one that is absent
ArgPaths(rt) == ItemPaths(rt) \cup {MissingPath}

\* local destinations of a download
LocalPaths == { None, <<"o">> }

\* the local file an upload reads
LocalFiles == { [exists |-> TRUE, content |-> <<"c">>], [exists |-> FALSE, content |-> None] }

Init ==
    /\ access_token = Token
    /\ site_id = None
    /\ drive_id = None
    /\ remote \in SessionDrives
    /\ token_acquisitions = 1
    /\ last = [op |-> "__init__", args |-> <<>>, res |-> Started]

\* a get_site_id that acquires another token when the remote answers 401
GetSiteId_reauthenticate ==
    \E site_path \in SitePaths, resp \in SiteResponses :
        LET res == get_site_id(Session, site_path, resp)
        IN /\ Ran("get_site_id", [site_path |-> site_path, resp |-> resp], res)
           /\ site_id' = IF res.ok THEN res.ret ELSE site_id
           /\ access_token' = IF resp.status = 401 THEN <<"tok2">> ELSE access_token
           /\ token_acquisitions' =
                 IF resp.status = 401 THEN 2 ELSE token_acquisitions
           /\ UNCHANGED <<drive_id, remote>>

GetSiteId ==
    \E site_path \in SitePaths, resp \in SiteResponses :
        LET res == get_site_id(Session, site_path, resp)
        IN /\ Ran("get_site_id", [site_path |-> site_path, resp |-> resp], res)
           /\ site_id' = IF res.ok THEN res.ret ELSE site_id
           /\ UNCHANGED <<access_token, drive_id, remote, token_acquisitions>>

\* a get_drive_id that forgets the drive when it fails
GetDriveId_reset_on_failure ==
    \E drive_name \in PreferredNames, resp \in DriveResponses :
        LET res == get_drive_id(Session, drive_name, resp)
        IN /\ Ran("get_drive_id", [drive_name |-> drive_name, resp |-> resp], res)
           /\ drive_id' = res.ret
           /\ UNCHANGED <<access_token, site_id, remote, token_acquisitions>>

GetDriveId ==
    \E drive_name \in PreferredNames, resp \in DriveResponses :
        LET res == get_drive_id(Session, drive_name, resp)
        IN /\ Ran("get_drive_id", [drive_name |-> drive_name, resp |-> resp], res)
           /\ drive_id' = IF res.ok THEN res.ret ELSE drive_id
           /\ UNCHANGED <<access_token, site_id, remote, token_acquisitions>>

ItemOp(op, args, res) ==
    /\ Ran(op, args, res)
    /\ UNCHANGED <<access_token, site_id, drive_id, remote, token_acquisitions>>

DownloadArgs(path, local, fault) == [path |-> path, local |-> local, fault |-> fault]

DownloadItem ==
    \E path \in ArgPaths(remote), local \in LocalPaths, fault \in 0..3 :
        ItemOp("download_item", DownloadArgs(path, local, fault),
               download_item(Cx(fault), path, local))

DownloadFile ==
    \E path \in ArgPaths(remote), local \in LocalPaths, fault \in {0} :
        ItemOp("download_file", DownloadArgs(path, local, fault),
               download_file(Cx(fault), path, local))

DownloadFolder ==
    \E path \in ArgPaths(remote), local \in LocalPaths, fault \in {0} :
        ItemOp("download_folder", DownloadArgs(path, local, fault),
               download_folder(Cx(fault), path, local))

UploadFile ==
    \E local \in LocalFiles, path \in SearchPaths(remote),
       file_name \in {None, <<"n">>}, fault \in 0..1 :
        ItemOp("upload_file",
               [local_file_path |-> <<"d", "/", "f">>, local |-> local, path |-> path,
                file_name |-> file_name, fault |-> fault],
               upload_file(Cx(fault), <<"d", "/", "f">>, local, path, file_name))

UploadFileFromMemory ==
    \E path \in SearchPaths(remote), file_name \in Names, fault \in 0..1 :
        ItemOp("upload_file_from_memory",
               [content |-> <<"c">>, path |-> path, file_name |-> file_name,
                fault |-> fault],
               upload_file_from_memory(Cx(fault), Started, <<"c">>, path, file_name))

DeleteArgs(path, fault) == [path |-> path, fault |-> fault]

DeleteItem ==
    \E path \in ArgPaths(remote), fault \in 0..1 :
        ItemOp("delete_item", DeleteArgs(path, fault), delete_item(Cx(fault), path))

DeleteFile ==
    \E path \in ArgPaths(remote), fault \in {0} :
        ItemOp("delete_file", DeleteArgs(path, fault), delete_file(Cx(fault), path))

DeleteFolder ==
    \E path \in ArgPaths(remote), fault \in {0} :
        ItemOp("delete_folder", DeleteArgs(path, fault), delete_folder(Cx(fault), path))

MoveArgs(path, dest, fault) == [path |-> path, dest |-> dest, fault |-> fault]

MoveItem ==
    \E path \in ArgPaths(remote), dest \in ArgPaths(remote), fault \in 0..3 :
        ItemOp("move_item", MoveArgs(path, dest, fault),
               move_item(Cx(fault), path, dest))

MoveFile ==
    \E path \in ArgPaths(remote), dest \in ArgPaths(remote), fault \in {0} :
        ItemOp("move_file", MoveArgs(path, dest, fault),
               move_file(Cx(fault), path, dest))

MoveFolder ==
    \E path \in ArgPaths(remote), dest \in ArgPaths(remote), fault \in {0} :
        ItemOp("move_folder", MoveArgs(path, dest, fault),
               move_folder(Cx(fault), path, dest))

SessionSearchFiles ==
    \E suffix \in Suffixes, path \in SearchPaths(remote), fault \in {0} :
        CallSearchFiles(suffix, path, fault)

SessionSearchFolders ==
    \E suffix \in Suffixes, path \in SearchPaths(remote), fault \in {0} :
        CallSearchFolders(suffix, path, fault)

SessionSearchFilesRecursive ==
    \E suffix \in Suffixes, path \in SearchPaths(remote), fault \in {0} :
        CallSearchFilesRecursive(suffix, path, fault)

SessionSearchFoldersRecursive ==
    \E suffix \in Suffixes, path \in SearchPaths(remote), fault \in {0} :
        CallSearchFoldersRecursive(suffix, path, fault)

Next ==
    \/ GetSiteId
    \/ GetDriveId
    \/ DownloadItem
    \/ DownloadFile
    \/ DownloadFolder
    \/ UploadFile
    \/ UploadFileFromMemory
    \/ DeleteItem
    \/ DeleteFile
    \/ DeleteFolder
    \/ MoveItem
    \/ MoveFile
    \/ MoveFolder
    \/ SessionSearchFiles
    \/ SessionSearchFolders
    \/ SessionSearchFilesRecursive
    \/ SessionSearchFoldersRecursive

Spec == Init /\ [][Next]_vars

(***************************************************************************)
(* The traversal specification: a session whose drive is resolved, any     *)
(* remote drive of up to MaxNodes items, any of its files listed without a *)
(* download link, and one walk of it: a download or a recursive search,    *)
(* with any path, destination and rejected request.                        *)
(***************************************************************************)
\* the request of a download the remote rejects: none, the first .. fourth
DownloadFaultAts == {0, 1, 2, 3, 4}

\* suffix arguments of the recursive searches of a walk
TraverseSuffixes == { <<>>, <<"g">> }

InitTraverse ==
    /\ access_token = Token
    /\ site_id = <<"s1">>
    /\ drive_id = <<"d1">>
    /\ remote \in LinkTrees(MaxNodes)
    /\ token_acquisitions = 1
    /\ \E path \in ArgPaths(remote) \cup {<<>>}, local \in LocalPaths,
          fault \in DownloadFaultAts :
          last = [op |-> "input", args |-> DownloadArgs(path, local, fault),
                  res |-> Started]

TraverseDownloadItem ==
    /\ last.op = "input"
    /\ ItemOp("download_item", last.args,
              download_item(Cx(last.args.fault), last.args.path, last.args.local))

TraverseSearchFiles ==
    /\ last.op = "input"
    /\ last.args.local = None
    /\ last.args.path \in SearchPaths(remote)
    /\ \E suffix \in TraverseSuffixes :
          CallSearchFilesRecursive(suffix, last.args.path, last.args.fault)

TraverseSearchFolders ==
    /\ last.op = "input"
    /\ last.args.local = None
    /\ last.args.path \in SearchPaths(remote)
    /\ \E suffix \in TraverseSuffixes :
          CallSearchFoldersRecursive(suffix, last.args.path, last.args.fault)

NextTraverse ==
    \/ TraverseDownloadItem
    \/ TraverseSearchFiles
    \/ TraverseSearchFolders

SpecTraverse == InitTraverse /\ [][NextTraverse]_vars

(***************************************************************************)
(* The store specification: a session whose drive is resolved, on a remote *)
(* drive that keeps what it is sent: uploads, downloads and deletions in   *)
(* any order.  The drive holds at most MaxItems items.                     *)
(***************************************************************************)
EmptyDrive ==
    [ parent |-> <<>>, name |-> <<>>, kind |-> <<>>, link |-> <<>>, content |-> <<>>,
      colon_root |-> FALSE ]

StoreDrives == {SampleDrive, EmptyDrive}

\* contents a caller uploads
Contents == { <<"c">>, <<"d">> }

InitStore ==
    /\ access_token = Token
    /\ site_id = <<"s1">>
    /\ drive_id = <<"d1">>
    /\ remote \in StoreDrives
    /\ token_acquisitions = 1
    /\ last = [op |-> "__init__", args |-> <<>>, res |-> Started]

\* the operation ran and the remote is as its last request, when it was
\* answered with success, left it
StoreOp(op, args, res) ==
    /\ Ran(op, args, res)
    /\ remote' = IF res.ok /\ res.calls # <<>>
                 THEN RemoteAfter(remote, res.calls[Len(res.calls)])
                 ELSE remote
    /\ UNCHANGED <<access_token, site_id, drive_id, token_acquisitions>>

StoreUpload ==
    \E content \in Contents, path \in SearchPaths(remote), file_name \in Names,
       fault \in {0, 1} :
        /\ \/ Len(remote.name) < MaxItems
           \/ Lookup(remote, JoinPath(path, file_name)) # -1
        /\ StoreOp("upload_file_from_memory",
                   [content |-> content, path |-> path, file_name |-> file_name,
                    fault |-> fault],
                   upload_file_from_memory(Cx(fault), Started, content, path, file_name))

\* paths a caller downloads or deletes: the drive's items, the items the
\* drive held at first, every place of an upload, and the names of the
\* root's items written after a "/"
StorePaths(rt) ==
    ArgPaths(rt) \cup ItemPaths(SampleDrive)
        \cup { JoinPath(p, n) : p \in FolderPaths(rt), n \in Names }
        \cup { <<"/">> \o n : n \in Names }

StoreDownload ==
    \E path \in StorePaths(remote), fault \in {0} :
        StoreOp("download_item", DownloadArgs(path, None, fault),
                download_item(Cx(fault), path, None))

StoreDelete ==
    \E path \in StorePaths(remote), fault \in {0, 1} :
        StoreOp("delete_item", DeleteArgs(path, fault), delete_item(Cx(fault), path))

NextStore ==
    \/ StoreUpload
    \/ StoreDownload
    \/ StoreDelete

SpecStore == InitStore /\ [][NextStore]_vars

(***************************************************************************)
(* The URL specification: a session with any site and drive, any path of   *)
(* up to MaxPathLen characters, and one call of a URL builder on it.       *)
(***************************************************************************)
\* a letter, a character quote() escapes, and the separator
PathChars == {"a", " ", "/"}

Paths(n) == UNION { [1..k -> PathChars] : k \in 0..n }

InitUrl ==
    /\ access_token = Token
    /\ site_id \in SiteIds
    /\ drive_id \in DriveIds
    /\ remote = EmptyDrive
    /\ token_acquisitions = 1
    /\ \E path \in Paths(MaxPathLen) :
          last = [op |-> "input", args |-> [path |-> path], res |-> Started]

\* the builder returned url
Built(op, url) ==
    /\ last.op = "input"
    /\ Ran(op, last.args, [Started EXCEPT !.ret = url])
    /\ UNCHANGED <<access_token, site_id, drive_id, remote, token_acquisitions>>

\* as its callers call it: on the quoted path
BuildItemUrl ==
    Built("_get_drive_item_url",
          _get_drive_item_url(site_id, drive_id, Quote(last.args.path)))

BuildContentUrl ==
    Built("_get_drive_item_content_url",
          _get_drive_item_content_url(site_id, drive_id, Quote(last.args.path)))

BuildChildrenUrl ==
    Built("_get_drive_children_url",
          _get_drive_children_url(site_id, drive_id, last.args.path))

NextUrl ==
    \/ BuildItemUrl
    \/ BuildContentUrl
    \/ BuildChildrenUrl

SpecUrl == InitUrl /\ [][NextUrl]_vars

(***************************************************************************)
(* The client specification: the constructor, against a token provider     *)
(* that grants or rejects, and then the resolution of site and drive and   *)
(* an item operation on the constructed client.  The remote lists for      *)
(* every site the drives of that site.                                     *)
(***************************************************************************)
\* results of acquire_token_for_client: with the key "access_token", or
\* with "error" and "error_description"
Granted == [access_token |-> Token, error |-> ""]

Rejected == [access_token |-> None, error |-> "invalid_client"]

\* what the provider answers to a first and to a second acquisition
ProviderAnswers == [1..2 -> {Granted, Rejected}]

\* an authentication that asks the provider again after a rejection
_authenticate_retry(answers) ==
    LET acc1 == Local(Started, "acquire_token_for_client", None, None)
        acc2 == Local(acc1, "acquire_token_for_client", None, None)
    IN IF answers[1].access_token # None
       THEN [acc1 EXCEPT !.ret = answers[1].access_token]
       ELSE IF answers[2].access_token # None
       THEN [acc2 EXCEPT !.ret = answers[2].access_token]
       ELSE Raise(acc2, Exception("Authentication failed"))

\* _authenticate: ret is the value assigned to self.access_token
_authenticate(answers) ==
    LET acc    == Local(Started, "acquire_token_for_client", None, None)
        result == answers[1]
    IN IF result.access_token # None
       THEN [acc EXCEPT !.ret = result.access_token]
       ELSE Raise(acc, Exception("Authentication failed"))

\* the drives the remote lists for a site
SiteListing(sid) ==
    IF sid = <<"s1">> THEN << [name |-> <<"Documenten">>, id |-> <<"d1">>] >>
    ELSE IF sid = <<"s2">> THEN << [name |-> <<"documenten">>, id |-> <<"d2">>] >>
    ELSE <<>>

\* before SharePointManager(...) is called
InitClient ==
    /\ access_token = None
    /\ site_id = None
    /\ drive_id = None
    /\ remote = SampleDrive
    /\ token_acquisitions = 0
    /\ \E answers \in ProviderAnswers :
          last = [op |-> "new", args |-> [answers |-> answers], res |-> Started]

\* __init__: the fields are set to None and _authenticate runs
Construct ==
    /\ last.op = "new"
    /\ LET res == _authenticate(last.args.answers)
       IN /\ Ran("__init__", last.args, res)
          /\ access_token' = IF res.ok THEN res.ret ELSE None
          /\ token_acquisitions' =
                token_acquisitions
                    + Cardinality({ k \in 1..Len(res.events) :
                                       res.events[k].ev = "acquire_token_for_client" })
          /\ site_id' = None
          /\ drive_id' = None
          /\ UNCHANGED remote

\* the constructor returned: there is a client to call
Constructed ==
    /\ last.op # "new"
    /\ ~(last.op = "__init__" /\ ~last.res.ok)

ClientGetSiteId == Constructed /\ GetSiteId

ClientGetDriveId ==
    /\ Constructed
    /\ \E drive_name \in PreferredNames,
          resp \in { [status |-> 200, value |-> SiteListing(site_id)],
                     [status |-> 500, value |-> <<>>] } :
          LET res == get_drive_id(Session, drive_name, resp)
          IN /\ Ran("get_drive_id", [drive_name |-> drive_name, resp |-> resp], res)
             /\ drive_id' = IF res.ok THEN res.ret ELSE drive_id
             /\ UNCHANGED <<access_token, site_id, remote, token_acquisitions>>

ClientDeleteItem == Constructed /\ DeleteItem

NextClient ==
    \/ Construct
    \/ ClientGetSiteId
    \/ ClientGetDriveId
    \/ ClientDeleteItem

SpecClient == InitClient /\ [][NextClient]_vars

(***************************************************************************)
(* The item specification: any item resource of a listing, with or without *)
(* a parent path, and the ItemInfo built from it.                          *)
(***************************************************************************)
\* "/<folder>/<folder>.." of up to n folders
RECURSIVE FolderTails(_)
FolderTails(n) ==
    IF n = 0 THEN { <<>> }
    ELSE FolderTails(n - 1)
            \cup { t \o <<"/">> \o name : t \in FolderTails(n - 1), name \in Names }

\* parentReference.path as the remote writes it, "/drives/<id>/root:<folders>",
\* and absent
ParentPathsOf(n) ==
    { <<"/drives/">> \o did \o <<"/root", ":">> \o t :
          did \in DriveIds, t \in FolderTails(n) }
        \cup { <<>> }

\* item resources of a listing
ItemResources ==
    { [ name        |-> name,
        id          |-> <<"item", "1">>,
        file        |-> kind = "file",
        folder      |-> kind = "folder",
        parent_path |-> parent_path,
        downloadUrl |-> None ] :
      name \in Names, kind \in Kinds,
      parent_path \in ParentPathsOf(MaxDepth) }

InitInfo ==
    /\ access_token = Token
    /\ site_id = <<"s1">>
    /\ drive_id = <<"d1">>
    /\ remote = EmptyDrive
    /\ token_acquisitions = 1
    /\ \E item \in ItemResources :
          last = [op |-> "input", args |-> [item |-> item], res |-> Started]

CreateItemInfo ==
    /\ last.op = "input"
    /\ Ran("_create_item_info_from_api_response", last.args,
           [Started EXCEPT !.ret = _create_item_info_from_api_response(last.args.item)])
    /\ UNCHANGED <<access_token, site_id, drive_id, remote, token_acquisitions>>

NextInfo == CreateItemInfo

SpecInfo == InitInfo /\ [][NextInfo]_vars

(***************************************************************************)
(* Properties of the session specification.                                *)
(***************************************************************************)
ItemOps ==
    { "download_item", "download_file", "download_folder",
      "upload_file", "upload_file_from_memory",
      "search_files_by_suffix", "search_files_by_suffix_recursive",
      "search_folders_by_suffix", "search_folders_by_suffix_recursive",
      "delete_item", "delete_file", "delete_folder",
      "move_item", "move_file", "move_folder" }

\* C1: every item-level operation (the deprecated aliases included) called
\* while drive_id is unset raises the "Drive ID not set" exception and has
\* issued no request (nor touched the local file system).
C1_ItemOpNeedsDrive ==
    (last.op \in ItemOps /\ drive_id = None) =>
        /\ ~last.res.ok
        /\ last.res.err = Exception("Drive ID not set")
        /\ last.res.calls = <<>>
        /\ last.res.events = <<>>

\* an item operation, here an alias that moves an existing item, has run on
\* a session whose site is resolved and whose drive is not
C1_Witness ==
    /\ last.op = "move_folder"
    /\ last.args.path \in ItemPaths(remote)
    /\ site_id # None
    /\ drive_id = None
    /\ ~last.res.ok
    /\ last.res.calls = <<>>

\* C2: get_drive_id called while site_id is unset raises the "Site ID not
\* set" exception without having issued a request, and leaves drive_id as
\* it was.
C2_DriveNeedsSite ==
    [][(last'.op = "get_drive_id" /\ site_id = None) =>
          /\ ~last'.res.ok
          /\ last'.res.err = Exception("Site ID not set")
          /\ last'.res.calls = <<>>
          /\ drive_id' = drive_id]_vars

\* get_drive_id has run, against a remote that would have listed a drive,
\* on a session without a site
C2_Witness ==
    /\ last.op = "get_drive_id"
    /\ site_id = None
    /\ last.args.resp.status = 200
    /\ last.args.resp.value # <<>>
    /\ ~last.res.ok
    /\ drive_id = None

\* the places of a listing whose entry has the preferred name
MatchesOf(drives, drive_name) == { k \in 1..Len(drives) : drives[k].name = drive_name }

\* the entry get_drive_id is to pick from a non-empty listing
PreferredEntry(drives, drive_name) ==
    IF MatchesOf(drives, drive_name) # {}
    THEN CHOOSE k \in MatchesOf(drives, drive_name) :
             \A j \in MatchesOf(drives, drive_name) : k <= j
    ELSE 1

\* get_drive_id ran last, with a site, and the listing request succeeded
DriveListed ==
    /\ last.op = "get_drive_id"
    /\ site_id # None
    /\ last.args.resp.status = 200

\* C3: on a non-empty drive listing get_drive_id returns, and stores in
\* drive_id, the id of the first entry whose name equals the preferred name
\* exactly, and the id of the first entry when no name matches.
C3_PreferNamedFallbackFirst ==
    (DriveListed /\ last.args.resp.value # <<>>) =>
        /\ last.res.ok
        /\ last.res.ret =
              last.args.resp.value[
                  PreferredEntry(last.args.resp.value, last.args.drive_name)].id
        /\ drive_id = last.res.ret

\* the preferred name is listed second, after a drive whose name differs
\* from it in case only and whose id is another: the second id is returned
C3_Witness ==
    /\ DriveListed
    /\ Len(last.args.resp.value) = 2
    /\ last.args.resp.value[1].name = <<"documenten">>
    /\ last.args.resp.value[2].name = <<"Documenten">>
    /\ last.args.drive_name = <<"Documenten">>
    /\ last.args.resp.value[1].id # last.args.resp.value[2].id
    /\ last.res.ret = last.args.resp.value[2].id
    /\ drive_id = last.args.resp.value[2].id

\* C4: when the listing request succeeds, get_drive_id raises, with the "No
\* drives found" exception, exactly when the listing is empty; an empty
\* listing yields no drive id, whatever the preferred name.
C4_NotFoundIffEmpty ==
    DriveListed =>
        /\ ~last.res.ok <=> last.args.resp.value = <<>>
        /\ ~last.res.ok => /\ last.res.err = Exception("No drives found")
                           /\ last.res.ret = None

\* get_drive_id has failed on an empty listing that was answered with 200
C4_Witness ==
    /\ DriveListed
    /\ last.args.resp.value = <<>>
    /\ ~last.res.ok
    /\ last.res.err = Exception("No drives found")
    /\ Len(last.res.calls) = 1

\* the request GET <item url of path> with the session's bearer token
IsResolution(req, path) ==
    /\ req.method = "GET"
    /\ req.url = <<GRAPH_API_BASE, "/sites/">> \o site_id \o <<"/drives/">> \o drive_id
                    \o <<"/root", ":/">> \o Quote(path)

\* the k-th resolution of a move fails: the remote rejects the request or
\* holds no item at the path
ResolutionFails(k, path) == last.args.fault = k \/ Lookup(remote, path) = -1

\* C5: move_item resolves the source path first and the destination folder
\* path second, each by one GET, and only then issues the PATCH; when the
\* first resolution fails nothing follows it, when the second fails no PATCH
\* is issued; no other request is ever issued.
C5_MoveResolvesTwiceThenPatches ==
    (last.op = "move_item" /\ drive_id # None) =>
        LET calls == last.res.calls
        IN /\ Len(calls) >= 1
           /\ IsResolution(calls[1], last.args.path)
           /\ IF ResolutionFails(1, last.args.path)
              THEN Len(calls) = 1 /\ ~last.res.ok
              ELSE /\ Len(calls) >= 2
                   /\ IsResolution(calls[2], last.args.dest)
                   /\ IF ResolutionFails(2, last.args.dest)
                      THEN Len(calls) = 2 /\ ~last.res.ok
                      ELSE /\ Len(calls) = 3
                           /\ calls[3].method = "PATCH"
           /\ \A k \in 1..Len(calls) : calls[k].method = "PATCH" => k = 3

\* the source resolved, the destination folder did not: two GETs, no PATCH
C5_Witness ==
    /\ last.op = "move_item"
    /\ drive_id # None
    /\ last.args.fault = 0
    /\ Lookup(remote, last.args.path) # -1
    /\ Lookup(remote, last.args.dest) = -1
    /\ Len(last.res.calls) = 2
    /\ ~last.res.ok

\* C6: download_item on a path whose metadata carries neither the file nor
\* the folder marker raises the "Unknown item type" exception after its one
\* request, the metadata fetch: no content fetch, no listing, no local
\* write or directory follows.
C6_UnknownItemTypeStops ==
    ( /\ last.op = "download_item"
      /\ drive_id # None
      /\ last.args.fault # 1
      /\ Lookup(remote, last.args.path) \in NodesOf(remote)
      /\ remote.kind[Lookup(remote, last.args.path)] = "other" ) =>
        /\ ~last.res.ok
        /\ last.res.err = Exception("Unknown item type")
        /\ Len(last.res.calls) = 1
        /\ last.res.calls[1].method = "GET"
        /\ last.res.calls[1].url =
               <<GRAPH_API_BASE, "/sites/">> \o site_id \o <<"/drives/">> \o drive_id
                   \o <<"/root", ":/">> \o Quote(last.args.path)
        /\ Len(last.res.events) = 1

\* download_item has run, with a destination, on the item of SampleDrive
\* that is neither file nor folder
C6_Witness ==
    /\ last.op = "download_item"
    /\ drive_id # None
    /\ last.args.fault = 0
    /\ last.args.local # None
    /\ Lookup(remote, last.args.path) \in NodesOf(remote)
    /\ remote.kind[Lookup(remote, last.args.path)] = "other"
    /\ ~last.res.ok

\* C20: the token is acquired once, by the constructor: in every state
\* after construction access_token is the token acquired then, and no
\* operation, whatever its outcome (an answer of 401 included), assigns
\* access_token or acquires a token again.
C20_TokenSetOnce ==
    [][/\ access_token = Token
       /\ access_token' = access_token
       /\ token_acquisitions = 1
       /\ token_acquisitions' = token_acquisitions]_vars

\* an operation was answered 401 and failed; the token is the one acquired
\* at construction and the request carried it
C20_Witness ==
    /\ last.op = "get_site_id"
    /\ last.args.resp.status = 401
    /\ ~last.res.ok
    /\ last.res.err = HTTPError(401)
    /\ last.res.calls[1].auth = <<"Bearer ">> \o Token
    /\ access_token = Token
    /\ token_acquisitions = 1

Moves == { "move_item", "move_file", "move_folder" }

\* a resolution step of the move that ran last was answered 404: the first,
\* or the second after the first resolved
ResolutionNotFound ==
    \/ last.args.fault # 1 /\ Lookup(remote, last.args.path) = -1
    \/ /\ last.args.fault \notin {1, 2}
       /\ Lookup(remote, last.args.path) # -1
       /\ Lookup(remote, last.args.dest) = -1

\* both ids resolved and the PATCH was rejected
PatchRejected ==
    /\ Len(last.res.calls) = 3
    /\ last.res.calls[3].method = "PATCH"
    /\ ~last.res.ok

\* C21: a move whose first or second resolution was answered 404 fails with
\* the "Item not found" exception, a plain Exception, and issues no PATCH; a
\* move whose PATCH was rejected fails with the HTTPError of the response,
\* which is another type of error and carries the status.
C21_NotFoundDistinctFromRejectedPatch ==
    (last.op \in Moves /\ drive_id # None) =>
        /\ ResolutionNotFound =>
              /\ ~last.res.ok
              /\ last.res.err = Exception("Item not found")
              /\ \A k \in 1..Len(last.res.calls) : last.res.calls[k].method = "GET"
        /\ PatchRejected =>
              /\ last.res.err.type = "HTTPError"
              /\ last.res.err.status >= 400
              /\ last.res.err # Exception("Item not found")

\* the item resolved and the destination folder was answered 404: the move
\* failed with "Item not found" after its two GETs
C21_Witness ==
    /\ last.op = "move_item"
    /\ drive_id # None
    /\ last.args.fault = 0
    /\ Lookup(remote, last.args.path) # -1
    /\ Lookup(remote, last.args.dest) = -1
    /\ Len(last.res.calls) = 2
    /\ last.res.err = Exception("Item not found")
    /\ move_item(Cx(0), last.args.path, last.args.path).err.type = "HTTPError"

Resolutions == { "get_site_id", "get_drive_id" }

\* C28: every step leaves access_token as it is; an item operation, and a
\* get_site_id or get_drive_id that fails, leaves site_id and drive_id as
\* they are; site_id changes only to what a successful get_site_id returned
\* and drive_id only to what a successful get_drive_id returned, and neither
\* goes back to None.
C28_SessionChangesOnlyByResolution ==
    [][/\ access_token' = access_token
       /\ (last'.op \in ItemOps \/ (last'.op \in Resolutions /\ ~last'.res.ok)) =>
             /\ site_id' = site_id
             /\ drive_id' = drive_id
       /\ site_id' # site_id =>
             /\ last'.op = "get_site_id"
             /\ last'.res.ok
             /\ site_id' = last'.res.ret
       /\ drive_id' # drive_id =>
             /\ last'.op = "get_drive_id"
             /\ last'.res.ok
             /\ drive_id' = last'.res.ret
       /\ site_id # None => site_id' # None
       /\ drive_id # None => drive_id' # None]_vars

\* get_drive_id failed, on an empty listing, on a session that holds a
\* drive: the session still holds it
C28_Witness ==
    /\ last.op = "get_drive_id"
    /\ last.args.resp = [status |-> 200, value |-> <<>>]
    /\ ~last.res.ok
    /\ Len(last.res.calls) = 1
    /\ site_id # None
    /\ drive_id # None

\* the request goes to a download link, not to the remote API
ToDownloadLink(req) == req.url[1] = "https://download/"

\* C30: every request of every operation that goes to the remote API (site,
\* drive, metadata, listing, upload, delete, move) carries "Bearer " and the
\* session's access_token as its authorization, and every request that goes
\* to a download link carries none.
C30_BearerOnApiOnly ==
    \A k \in 1..Len(last.res.calls) :
        IF ToDownloadLink(last.res.calls[k])
        THEN last.res.calls[k].auth = None
        ELSE /\ last.res.calls[k].url[1] = GRAPH_API_BASE
             /\ last.res.calls[k].auth = <<"Bearer ">> \o access_token

\* the download of a folder that holds a file: the metadata request and the
\* listing carried the token, the fetch of the file's download link did not
C30_Witness ==
    /\ last.op = "download_item"
    /\ last.res.ok
    /\ Len(last.res.calls) = 3
    /\ last.res.calls[2].url[Len(last.res.calls[2].url)] = ":/children"
    /\ last.res.calls[2].auth = <<"Bearer ">> \o Token
    /\ ToDownloadLink(last.res.calls[3])
    /\ last.res.calls[3].auth = None

(***************************************************************************)
(* Properties of the client specification.                                 *)
(***************************************************************************)
\* the constructor ran last and raised
ConstructionFailed == last.op = "__init__" /\ ~last.res.ok

\* C22: when the token provider rejects the first acquisition, the
\* constructor raises "Authentication failed" after that one acquisition,
\* whatever the provider would answer to a second, having issued no
\* request; and nothing runs on that client afterwards.
C22_RejectedCredentialsFailOnce ==
    [][/\ (last'.op = "__init__" /\ last'.args.answers[1] = Rejected) =>
             /\ ~last'.res.ok
             /\ last'.res.err = Exception("Authentication failed")
             /\ token_acquisitions' = 1
             /\ last'.res.calls = <<>>
             /\ access_token' = None
       /\ ~ConstructionFailed]_vars

\* the constructor failed against a provider that would have granted a
\* second acquisition
C22_Witness ==
    /\ ConstructionFailed
    /\ last.args.answers = <<Rejected, Granted>>
    /\ token_acquisitions = 1
    /\ access_token = None
    /\ last.res.calls = <<>>

\* the ids of the drives the remote lists for a site
DriveIdsOf(sid) == { SiteListing(sid)[k].id : k \in 1..Len(SiteListing(sid)) }

\* C29 as stated: whenever drive_id is set, site_id is set and drive_id is
\* the id of a drive the remote lists for the site stored in site_id.
C29_DriveOfCurrentSite ==
    drive_id # None =>
        /\ site_id # None
        /\ drive_id \in DriveIdsOf(site_id)

\* C29: drive_id is set only while site_id is set, and whenever it is
\* assigned it is the id of a drive the remote lists for the site stored in
\* site_id at that time; a later get_site_id leaves it as it is.
C29_DriveOfSiteAtResolution ==
    [][/\ drive_id' # None => site_id' # None
       /\ drive_id' # drive_id =>
             /\ site_id # None
             /\ site_id' = site_id
             /\ drive_id' \in DriveIdsOf(site_id)
       /\ last'.op = "get_site_id" => drive_id' = drive_id]_vars

\* after get_site_id, get_drive_id and a get_site_id that resolved another
\* site, delete_item addressed the drive of the first site under the second
C29_Witness ==
    /\ last.op = "delete_item"
    /\ site_id = <<"s2">>
    /\ drive_id = <<"d1">>
    /\ drive_id \notin DriveIdsOf(site_id)
    /\ Len(last.res.calls) = 1
    /\ SubSeq(last.res.calls[1].url, 1, 6) =
          <<GRAPH_API_BASE, "/sites/", "s2", "/drives/", "d1", "/root">>

(***************************************************************************)
(* Properties of the search specification.                                 *)
(***************************************************************************)
RecursiveSearches ==
    { "search_files_by_suffix_recursive", "search_folders_by_suffix_recursive" }

FlatSearches == { "search_files_by_suffix", "search_folders_by_suffix" }

\* the kind of item a search is after
WantedKind(op) ==
    IF op \in { "search_files_by_suffix", "search_files_by_suffix_recursive" }
    THEN "file" ELSE "folder"

\* the suffix with its leading dot, the empty suffix as it is
WithDot(suffix) ==
    IF suffix = <<>> THEN <<>>
    ELSE IF suffix[1] = "." THEN suffix
    ELSE <<".">> \o suffix

\* item i lies somewhere under item p (0: the root)
RECURSIVE Under(_, _, _)
Under(rt, i, p) ==
    \/ rt.parent[i] = p
    \/ rt.parent[i] # 0 /\ Under(rt, rt.parent[i], p)

\* the folder the search starts at, -1 when the path is absent
StartItem == Lookup(remote, last.args.path)

\* the items a recursive / a flat search for that kind and suffix is to find
WantedUnder(kind, suffix) ==
    { i \in NodesOf(remote) :
        /\ Under(remote, i, StartItem)
        /\ remote.kind[i] = kind
        /\ EndsWith(remote.name[i], suffix) }

WantedIn(kind, suffix) ==
    { i \in NodesOf(remote) :
        /\ remote.parent[i] = StartItem
        /\ remote.kind[i] = kind
        /\ EndsWith(remote.name[i], suffix) }

\* the items a result list names, by their ids
FoundItems(ret) == { IndexOf(ret[k].id[2]) : k \in 1..Len(ret) }

\* the result list names exactly the items of the set, each once
FindsExactly(ret, items) ==
    /\ FoundItems(ret) = items
    /\ Len(ret) = Cardinality(items)

\* C7: a recursive search that no request of which fails returns every item
\* of the requested kind anywhere under the start folder whose name ends
\* with the normalized suffix, and nothing else: also the items inside
\* folders that matched themselves.
C7_RecursiveSearchFindsAll ==
    (last.op \in RecursiveSearches) =>
        /\ (StartItem # -1 /\ last.args.fault = 0) => last.res.ok
        /\ last.res.ok =>
              FindsExactly(last.res.ret,
                           WantedUnder(WantedKind(last.op), WithDot(last.args.suffix)))

\* x.g/x.g under the root: a folder search from the root has returned a matching
\* folder and a matching folder inside it
C7_Witness ==
    /\ last.op = "search_folders_by_suffix_recursive"
    /\ last.args.path = <<>>
    /\ last.args.suffix = <<".", "g">>
    /\ last.res.ok
    /\ \E i, j \in NodesOf(remote) :
          /\ remote.parent[i] = 0
          /\ remote.parent[j] = i
          /\ {i, j} \subseteq FoundItems(last.res.ret)

\* the search named op, as called, with another suffix
SearchAgain(op, suffix) ==
    CASE op = "search_files_by_suffix" ->
             search_files_by_suffix(Cx(last.args.fault), suffix, last.args.path)
      [] op = "search_folders_by_suffix" ->
             search_folders_by_suffix(Cx(last.args.fault), suffix, last.args.path)
      [] op = "search_files_by_suffix_recursive" ->
             search_files_by_suffix_recursive(Cx(last.args.fault), suffix, last.args.path)
      [] op = "search_folders_by_suffix_recursive" ->
             search_folders_by_suffix_recursive(Cx(last.args.fault), suffix, last.args.path)

\* C8 as stated: for every suffix that does not begin with ".", the empty
\* one included, each search does with the suffix what it does with
\* "." + suffix.
C8_AnySuffixAsWithDot ==
    (last.op \in FlatSearches \cup RecursiveSearches
        /\ ~StartsWith(last.args.suffix, <<".">>)) =>
        last.res = SearchAgain(last.op, <<".">> \o last.args.suffix)

\* C8, amended: for every non-empty suffix that does not begin with ".",
\* each of the four searches does with the suffix (requests, outcome and
\* result) what it does with "." + suffix.
C8_NonEmptySuffixAsWithDot ==
    (last.op \in FlatSearches \cup RecursiveSearches
        /\ last.args.suffix # <<>>
        /\ ~StartsWith(last.args.suffix, <<".">>)) =>
        last.res = SearchAgain(last.op, <<".">> \o last.args.suffix)

\* a file search for "x.g" in a folder that holds the file x.g: the suffix
\* is taken as ".x.g" and the file is not returned
C8_Witness ==
    /\ last.op = "search_files_by_suffix"
    /\ last.args.suffix = <<"x", ".", "g">>
    /\ last.res.ok
    /\ last.res.ret = <<>>
    /\ \E i \in NodesOf(remote) :
          /\ remote.parent[i] = StartItem
          /\ remote.kind[i] = "file"
          /\ remote.name[i] = <<"x", ".", "g">>

\* C9: a flat search with the empty suffix returns every child of the
\* folder that carries the marker of the requested kind, whatever its name.
C9_EmptySuffixMatchesAll ==
    (last.op \in FlatSearches /\ last.args.suffix = <<>>) =>
        /\ (StartItem # -1 /\ last.args.fault # 1) => last.res.ok
        /\ last.res.ok =>
              FindsExactly(last.res.ret,
                           { i \in NodesOf(remote) :
                               /\ remote.parent[i] = StartItem
                               /\ remote.kind[i] = WantedKind(last.op) })

\* a file search with the empty suffix has returned two files of different
\* names
C9_Witness ==
    /\ last.op = "search_files_by_suffix"
    /\ last.args.suffix = <<>>
    /\ last.res.ok
    /\ Len(last.res.ret) = 2
    /\ last.res.ret[1].name # last.res.ret[2].name

\* C10: search_files_by_suffix returns exactly the file-marked children of
\* the folder whose name ends with the normalized suffix, and never a
\* folder; search_folders_by_suffix exactly the folder-marked ones, and
\* never a file.
C10_FlatSearchFiltersByKind ==
    (last.op \in FlatSearches /\ last.res.ok) =>
        /\ FindsExactly(last.res.ret,
                        WantedIn(WantedKind(last.op), WithDot(last.args.suffix)))
        /\ \A i \in FoundItems(last.res.ret) : remote.kind[i] = WantedKind(last.op)

\* the folder holds a file and a folder whose names both end with the
\* suffix: the file search has returned the file alone
C10_Witness ==
    /\ last.op = "search_files_by_suffix"
    /\ last.args.suffix = <<"g">>
    /\ last.res.ok
    /\ Len(last.res.ret) = 1
    /\ \E i \in NodesOf(remote) :
          /\ remote.parent[i] = StartItem
          /\ remote.kind[i] = "folder"
          /\ EndsWith(remote.name[i], <<".", "g">>)

(***************************************************************************)
(* Properties of the traversal specification.                              *)
(***************************************************************************)
\* item i and the folders it lies in, the root (0) included
RECURSIVE Chain(_, _)
Chain(rt, i) == IF i = 0 THEN {0} ELSE {i} \cup Chain(rt, rt.parent[i])

\* the child of folder p that is item i or holds it
Branch(rt, i, p) == CHOOSE a \in Chain(rt, i) : a # 0 /\ rt.parent[a] = p

\* the deepest folder that holds both items
Fork(rt, i, j) ==
    CHOOSE p \in Chain(rt, i) \cap Chain(rt, j) :
        \A q \in Chain(rt, i) \cap Chain(rt, j) : q <= p

\* item i comes before item j in the depth-first pre-order of the tree, the
\* items of one folder in the order of its listing
PreOrderBefore(rt, i, j) ==
    /\ i # j
    /\ \/ i \in Chain(rt, j)
       \/ /\ j \notin Chain(rt, i)
          /\ Branch(rt, i, Fork(rt, i, j)) < Branch(rt, j, Fork(rt, i, j))

\* the items a result list names, in its order
FoundOrder(ret) == [k \in 1..Len(ret) |-> IndexOf(ret[k].id[2])]

\* C23: the result list of a search, flat or recursive, names its items in
\* the depth-first pre-order of the remote tree: the items of one folder in
\* the order of its listing, a folder before everything found inside it,
\* everything found in an earlier item of a listing before a later item and
\* what is found inside that.
C23_ResultsInPreOrder ==
    (last.op \in FlatSearches \cup RecursiveSearches /\ last.res.ok) =>
        \A k, l \in 1..Len(last.res.ret) :
            k < l => PreOrderBefore(remote, FoundOrder(last.res.ret)[k],
                                    FoundOrder(last.res.ret)[l])

\* a folder search from the root found the first folder of the root, then
\* the folder inside it, which the remote lists third, then the second
\* folder of the root
C23_Witness ==
    /\ last.op = "search_folders_by_suffix_recursive"
    /\ last.args.path = <<>>
    /\ last.res.ok
    /\ remote.parent = <<0, 0, 1>>
    /\ FoundOrder(last.res.ret) = <<1, 3, 2>>

\* the folders of the subtree rooted at the start folder, that folder included
FoldersFromStart ==
    {StartItem} \cup { i \in NodesOf(remote) :
                          Under(remote, i, StartItem) /\ remote.kind[i] = "folder" }

\* the start path joined with the names of the folders that lead to folder f
RECURSIVE PathFromStart(_)
PathFromStart(f) ==
    IF f = StartItem THEN last.args.path
    ELSE JoinPath(PathFromStart(remote.parent[f]), remote.name[f])

\* the listing request for a folder path
ListingOf(path) ==
    Request("GET",
            IF path = <<>>
            THEN <<GRAPH_API_BASE, "/sites/">> \o site_id \o <<"/drives/">> \o drive_id
                    \o <<"/root", "/children">>
            ELSE <<GRAPH_API_BASE, "/sites/">> \o site_id \o <<"/drives/">> \o drive_id
                    \o <<"/root", ":/">> \o Quote(path) \o <<":/children">>,
            <<"Bearer ">> \o access_token, None)

\* C24: a recursive search from a folder of the remote tree, no request of
\* which is rejected, returns after exactly one listing request for every
\* folder of the subtree rooted at the start folder, that folder included:
\* each folder is listed once, at the start path joined with the names of
\* the folders that lead to it, and nothing else is requested.
C24_OneListingPerFolder ==
    (last.op \in RecursiveSearches /\ StartItem # -1 /\ last.args.fault = 0) =>
        /\ last.res.ok
        /\ Len(last.res.calls) = Cardinality(FoldersFromStart)
        /\ \A f \in FoldersFromStart :
              Cardinality({ k \in 1..Len(last.res.calls) :
                               last.res.calls[k] = ListingOf(PathFromStart(f)) }) = 1

\* a file search from a folder below the root that holds a folder and an
\* item that is neither file nor folder: two listings, the second at the
\* joined path
C24_Witness ==
    /\ last.op = "search_files_by_suffix_recursive"
    /\ last.args.fault = 0
    /\ last.args.path # <<>>
    /\ StartItem = 1
    /\ remote.parent = <<0, 1, 1>>
    /\ remote.kind[2] = "folder"
    /\ remote.kind[3] = "other"
    /\ last.res.ok
    /\ Len(last.res.calls) = 2
    /\ last.res.calls[2] = ListingOf(last.args.path \o <<"/">> \o remote.name[2])

\* C25: a search that is not recursive issues exactly one request, the
\* listing of the folder it was given (of the drive root for the empty
\* path), whether the remote answers it or not and whatever folders the
\* listing holds.
C25_FlatSearchOneListing ==
    (last.op \in FlatSearches) =>
        last.res.calls = << ListingOf(last.args.path) >>

\* a folder search of the root listed a folder that holds a folder of its
\* own: the one listing of the root was all it requested
C25_Witness ==
    /\ last.op = "search_folders_by_suffix"
    /\ last.args.path = <<>>
    /\ last.res.ok
    /\ remote.parent = <<0, 1, 2>>
    /\ FoundOrder(last.res.ret) = <<1>>
    /\ Len(last.res.calls) = 1
    /\ last.res.calls[1].url[Len(last.res.calls[1].url)] = "/children"

Traversals == RecursiveSearches \cup {"download_item"}

\* C11: in a recursive search or a download, the request the remote rejects
\* is the last one the operation issues; the operation then fails with the
\* remote's status and returns no list and no path, whatever it found
\* before.  A walk from a path the remote does not hold stops at its first
\* request.
C11_FirstFailureAborts ==
    (last.op \in Traversals) =>
        /\ (last.args.fault \in 1..Len(last.res.calls)) =>
              /\ Len(last.res.calls) = last.args.fault
              /\ ~last.res.ok
              /\ last.res.err = HTTPError(500)
              /\ last.res.ret = None
        /\ StartItem = -1 =>
              /\ Len(last.res.calls) = 1
              /\ ~last.res.ok
              /\ last.res.ret = None
        /\ ~last.res.ok => last.res.ret = None

\* a folder download whose first content fetch (the third request) was
\* rejected: the download failed there, though the folder holds another
\* file the download would have fetched
C11_Witness ==
    /\ last.op = "download_item"
    /\ last.args.fault = 3
    /\ Len(last.res.calls) = 3
    /\ last.res.calls[3].url[1] = "https://download/"
    /\ ~last.res.ok
    /\ last.res.ret = None
    /\ Len(download_item(Cx(0), last.args.path, last.args.local).calls) > 3

\* the directory a folder download writes under
DestinationOf(args) ==
    IF args.local = None THEN LastSegment(args.path) ELSE args.local

\* the local path that mirrors the place of item i under the start folder
RECURSIVE MirrorPath(_, _, _, _)
MirrorPath(rt, start, dest, i) ==
    IF rt.parent[i] = start THEN dest \o <<"/">> \o rt.name[i]
    ELSE MirrorPath(rt, start, dest, rt.parent[i]) \o <<"/">> \o rt.name[i]

\* download_item returned from the download of a folder
FolderDownloaded ==
    /\ last.op = "download_item"
    /\ StartItem \in NodesOf(remote)
    /\ remote.kind[StartItem] = "folder"
    /\ last.res.ok

\* the content of file i was requested at its download link and written to
\* the mirrored local path
FetchedAndWritten(i) ==
    /\ \E k \in 1..Len(last.res.calls) :
          /\ last.res.calls[k].method = "GET"
          /\ last.res.calls[k].url = <<"https://download/", Digits[i]>>
    /\ \E k \in 1..Len(last.res.events) :
          last.res.events[k] =
              [ev |-> "write",
               path |-> MirrorPath(remote, StartItem, DestinationOf(last.args), i),
               data |-> remote.content[i]]

\* C12 as stated: whenever download_item on a folder path returns
\* successfully, every file of the subtree under that path has had its
\* content fetched through its download link and written to the mirrored
\* local path.
C12_EveryFileFetched ==
    FolderDownloaded =>
        \A i \in NodesOf(remote) :
            (Under(remote, i, StartItem) /\ remote.kind[i] = "file") =>
                FetchedAndWritten(i)

\* C12, what the code ensures: whenever download_item on a folder path
\* returns successfully, every file of the subtree whose listing entry
\* carries a download link has been fetched and written to the mirrored
\* local path; a file listed without a link has been passed over: no
\* request and no write was made for it.
C12_LinkedFilesFetched ==
    FolderDownloaded =>
        \A i \in NodesOf(remote) :
            (Under(remote, i, StartItem) /\ remote.kind[i] = "file") =>
                IF remote.link[i] THEN FetchedAndWritten(i)
                ELSE \A k \in 1..Len(last.res.events) :
                        last.res.events[k].ev = "write" =>
                            last.res.events[k].path #
                                MirrorPath(remote, StartItem, DestinationOf(last.args), i)

\* a folder download has returned its directory although the folder holds
\* a file, in a subfolder, that is listed without a download link
C12_Witness ==
    /\ FolderDownloaded
    /\ last.res.ret = DestinationOf(last.args)
    /\ \E i \in NodesOf(remote) :
          /\ remote.kind[i] = "file"
          /\ ~remote.link[i]
          /\ remote.parent[i] # StartItem
          /\ Under(remote, i, StartItem)

\* download_item was called on the path of a file, the metadata fetch was
\* answered, and the metadata carries the download link
FileAddressed ==
    /\ last.op = "download_item"
    /\ StartItem \in NodesOf(remote)
    /\ remote.kind[StartItem] = "file"
    /\ remote.link[StartItem]
    /\ last.args.fault # 1

\* the side effects of an operation on the local file system
LocalEvents(res) ==
    SelectSeq(res.events, LAMBDA e : e.ev # "request")

FolderAddressed ==
    /\ last.op = "download_item"
    /\ \/ StartItem \in NodesOf(remote) /\ remote.kind[StartItem] = "folder"
       \/ StartItem = 0 /\ remote.colon_root
    /\ last.args.fault # 1

\* the second request lists the folder at the path, and the operation, when
\* the remote rejects no request, returns the destination directory
WalksAndReturnsDestination ==
    /\ Len(last.res.calls) >= 2
    /\ last.res.calls[2] =
          Request("GET",
                  <<GRAPH_API_BASE, "/sites/">> \o site_id \o <<"/drives/">>
                      \o drive_id \o <<"/root">>
                      \o (IF last.args.path = <<>> THEN <<"/children">>
                          ELSE <<":/">> \o Quote(last.args.path) \o <<":/children">>),
                  <<"Bearer ">> \o access_token, None)
    /\ LocalEvents(last.res) # <<>>
    /\ LocalEvents(last.res)[1] =
          [ev |-> "makedirs", path |-> DestinationOf(last.args), data |-> None]
    /\ last.args.fault = 0 =>
          /\ last.res.ok
          /\ last.res.ret = DestinationOf(last.args)

\* C14 as stated: download_item on a path whose metadata carries the folder
\* marker walks the folder at that path and returns the destination
\* directory, the caller's when given and otherwise the last segment of the
\* path, for every path.
C14_FolderDownloadReturnsDestination ==
    FolderAddressed => WalksAndReturnsDestination

\* C14, what the code ensures: the same for every path and destination but
\* a path whose last segment is empty given without a destination; there
\* the directory to create has the empty name and the download fails
\* before its walk.
C14_FolderDownloadNamedDestination ==
    FolderAddressed =>
        IF DestinationOf(last.args) # <<>>
        THEN WalksAndReturnsDestination
        ELSE /\ ~last.res.ok
             /\ Len(last.res.calls) = 1
             /\ LocalEvents(last.res) = <<>>

\* a folder inside a folder has been downloaded without a destination: the
\* directory returned is named after the last segment of its path
C14_Witness ==
    /\ FolderAddressed
    /\ StartItem \in NodesOf(remote)
    /\ remote.parent[StartItem] # 0
    /\ last.args.local = None
    /\ last.res.ok
    /\ last.res.ret = remote.name[StartItem]
    /\ last.res.ret # last.args.path

(***************************************************************************)
(* Properties of the store specification.                                  *)
(***************************************************************************)
\* an upload of content succeeded and the very next operation is the
\* download, with no destination, of item_path
DownloadFollowsUpload(item_path) ==
    /\ last.op = "upload_file_from_memory"
    /\ last.res.ok
    /\ last'.op = "download_item"
    /\ last'.args.local = None
    /\ last'.args.fault = 0
    /\ last'.args.path = item_path

\* the download returned a buffer holding the bytes that were uploaded
ReturnsUploaded ==
    /\ last'.res.ok
    /\ last'.res.ret = [BytesIO |-> last.args.content]

\* C15 as stated: for every folder path, the empty root path included, a
\* successful upload_file_from_memory(content, path, name) followed by
\* download_item(path + "/" + name) with no destination returns the bytes
\* of content.
C15_RoundTripAnyPath ==
    [][DownloadFollowsUpload(last.args.path \o <<"/">> \o last.args.file_name)
          => ReturnsUploaded]_vars

\* C15, amended: the round trip holds for every non-empty folder path; a
\* file uploaded with the empty path is addressed by its bare name, and the
\* download of that name returns the bytes of content.
C15_RoundTripInFolderOrBareName ==
    [][DownloadFollowsUpload(
           IF last.args.path # <<>>
           THEN last.args.path \o <<"/">> \o last.args.file_name
           ELSE last.args.file_name)
          => ReturnsUploaded]_vars

\* a download has returned bytes that only an upload can have put there,
\* from a file inside a folder
C15_Witness ==
    /\ last.op = "download_item"
    /\ last.res.ok
    /\ StartItem \in NodesOf(remote)
    /\ remote.parent[StartItem] # 0
    /\ remote.content[StartItem] \in Contents
    /\ last.res.ret = [BytesIO |-> remote.content[StartItem]]

\* C16: delete_item (with the drive resolved) issues exactly one request,
\* the DELETE of the item's URL; it returns True exactly when the remote
\* holds the item and accepts the request; on an absent path it fails with
\* the remote's 404.  Hence a delete_item that follows a successful
\* delete_item of the same path, no upload in between, fails.
C16_DeleteNotIdempotent ==
    [][(last'.op = "delete_item") =>
          /\ last'.res.calls =
                << Request("DELETE",
                           <<GRAPH_API_BASE, "/sites/">> \o site_id \o <<"/drives/">>
                               \o drive_id \o <<"/root", ":/">> \o Quote(last'.args.path),
                           <<"Bearer ">> \o access_token, None) >>
          /\ last'.res.ok <=>
                (Lookup(remote, last'.args.path) # -1 /\ last'.args.fault = 0)
          /\ last'.res.ok => last'.res.ret = <<"True">>
          /\ (Lookup(remote, last'.args.path) = -1 /\ last'.args.fault = 0) =>
                last'.res.err = HTTPError(404)
          /\ (last.op = "delete_item" /\ last.res.ok
                 /\ last'.args.path = last.args.path) =>
                ~last'.res.ok]_vars

\* delete_item has failed with 404 on the path of an item of the initial
\* drive, on the drive as the deletion of that item left it
C16_Witness ==
    /\ last.op = "delete_item"
    /\ last.args.path \in ItemPaths(SampleDrive)
    /\ last.args.fault = 0
    /\ \E i \in NodesOf(SampleDrive) :
          /\ last.args.path = NodePath(SampleDrive, i)
          /\ remote = Removed(SampleDrive, i)
    /\ Lookup(remote, last.args.path) = -1
    /\ ~last.res.ok
    /\ last.res.err = HTTPError(404)

\* the address of an upload: path/fileName, the bare fileName at the root
UploadAddress(args) ==
    IF args.path # <<>> THEN args.path \o <<"/">> \o args.file_name
    ELSE args.file_name

\* C17: upload_file_from_memory (with the drive resolved) issues exactly
\* one request: a PUT, with the bearer token and the given content as its
\* body, of the content sub-resource of the quoted path/fileName, of the
\* quoted bare fileName when the path is empty.  When the remote accepts it
\* the operation returns the record the remote answered, that of the file
\* at that address holding the content.
C17_UploadOnePut ==
    (last.op = "upload_file_from_memory") =>
        /\ last.res.calls =
              << Request("PUT",
                         <<GRAPH_API_BASE, "/sites/">> \o site_id \o <<"/drives/">>
                             \o drive_id \o <<"/root", ":/">>
                             \o Quote(UploadAddress(last.args)) \o <<":/content">>,
                         <<"Bearer ">> \o access_token, last.args.content) >>
        /\ last.res.ok =>
              last.res.ret = [name    |-> last.args.file_name,
                              path    |-> UploadAddress(last.args),
                              content |-> last.args.content]

\* an upload into a folder, of a file whose name quote() escapes, has been
\* accepted
C17_Witness ==
    /\ last.op = "upload_file_from_memory"
    /\ last.args.path = <<"x", ".", "g">>
    /\ last.args.file_name = <<"a", " ", ".", "g">>
    /\ last.res.ok
    /\ Len(last.res.calls) = 1
    /\ \E k \in 1..Len(last.res.calls[1].url) : last.res.calls[1].url[k] = "%"
    /\ Lookup(remote, UploadAddress(last.args)) # -1

(***************************************************************************)
(* Properties of the URL specification.                                    *)
(***************************************************************************)
\* the drive-root URL of the session
RootUrl ==
    <<GRAPH_API_BASE, "/sites/">> \o site_id \o <<"/drives/">> \o drive_id \o <<"/root">>

\* C18 as stated: the item URL builder returns the drive-root URL followed
\* by ":/" and the encoded path when the encoded path is non-empty, and the
\* bare drive-root URL when it is empty.
C18_ItemUrlBareRootWhenEmpty ==
    (last.op = "_get_drive_item_url") =>
        last.res.ret = IF Quote(last.args.path) # <<>>
                       THEN RootUrl \o <<":/">> \o Quote(last.args.path)
                       ELSE RootUrl

\* C18, what the code does: the builder returns the drive-root URL followed
\* by ":/" and the encoded path for every encoded path; for the empty one
\* the URL ends with ":/".
C18_ItemUrlAlwaysColon ==
    (last.op = "_get_drive_item_url") =>
        /\ last.res.ret = RootUrl \o <<":/">> \o Quote(last.args.path)
        /\ last.args.path = <<>> => last.res.ret[Len(last.res.ret)] = ":/"

\* the builder was called on the empty path and returned a URL that is not
\* the drive-root URL
C18_Witness ==
    /\ last.op = "_get_drive_item_url"
    /\ last.args.path = <<>>
    /\ last.res.ret # RootUrl
    /\ last.res.ret = RootUrl \o <<":/">>

\* C19: the children URL builder returns, for every non-empty folder path,
\* the drive-root URL followed by ":/", the quoted path and ":/children";
\* for the empty path the drive-root URL followed by "/children", with no
\* colon after the root.
C19_ChildrenUrl ==
    (last.op = "_get_drive_children_url") =>
        IF last.args.path # <<>>
        THEN last.res.ret =
                 RootUrl \o <<":/">> \o Quote(last.args.path) \o <<":/children">>
        ELSE /\ last.res.ret = RootUrl \o <<"/children">>
             /\ \A k \in 1..Len(last.res.ret) :
                   last.res.ret[k] \notin {":/", ":/children"}

\* the builder was called on a path with a separator and a character that
\* quote() escapes
C19_Witness ==
    /\ last.op = "_get_drive_children_url"
    /\ last.args.path = <<"/", " ">>
    /\ last.res.ret = RootUrl \o <<":/", "/", "%", "2", "0", ":/children">>

(***************************************************************************)
(* The order of the events of a folder download.                           *)
(***************************************************************************)
\* the local directory that mirrors folder f of the walk
MirrorDirectory(f) ==
    IF f = StartItem THEN DestinationOf(last.args)
    ELSE MirrorPath(remote, StartItem, DestinationOf(last.args), f)

\* the request is the listing of a folder
IsListing(req) ==
    req.method = "GET" /\ req.url[Len(req.url)] \in {"/children", ":/children"}

\* os.makedirs(dir) is among the events before the e-th
CreatedBefore(events, e, dir) ==
    \E d \in 1..(e - 1) :
        events[d] = [ev |-> "makedirs", path |-> dir, data |-> None]

\* C26: in a download of a folder, whatever request the remote rejects, the
\* first event is the metadata request and the next the creation of the
\* destination directory; every listing request for a folder comes after the
\* creation of the local directory that mirrors the folder, and every write
\* of a file after the creation of the directory it is written into.
C26_DirectoryBeforeListingAndWrites ==
    FolderAddressed =>
        LET events == last.res.events
            calls  == last.res.calls
        IN /\ events[1] = [ev |-> "request", n |-> 1]
           /\ Len(events) >= 2 =>
                 events[2] = [ev |-> "makedirs", path |-> DestinationOf(last.args),
                              data |-> None]
           /\ \A e \in 1..Len(events) :
                 IF events[e].ev = "request"
                 THEN IsListing(calls[events[e].n]) =>
                         CreatedBefore(events, e,
                             MirrorDirectory(
                                 Lookup(remote, ChildrenUrlPath(calls[events[e].n].url))))
                 ELSE events[e].ev = "write" =>
                         CreatedBefore(events, e, ParentPath(events[e].path))

\* the download of a folder that holds a folder that holds a file: the
\* metadata request, the destination, its listing, the subfolder's
\* directory, its listing, the fetch and the write, in that order
C26_Witness ==
    /\ FolderAddressed
    /\ last.res.ok
    /\ StartItem = 1
    /\ remote.parent = <<0, 1, 2>>
    /\ Len(last.res.events) = 7
    /\ last.res.events[4] =
          [ev |-> "makedirs",
           path |-> DestinationOf(last.args) \o <<"/">> \o remote.name[2], data |-> None]
    /\ last.res.events[5] = [ev |-> "request", n |-> 3]
    /\ IsListing(last.res.calls[3])
    /\ last.res.events[7].ev = "write"
    /\ ParentPath(last.res.events[7].path) = last.res.events[4].path

(***************************************************************************)
(* Properties of the item specification.                                   *)
(***************************************************************************)
\* the parent path without its drive prefix "/drives/<id>/root:"
WithoutDrivePrefix(parent_path) == SubSeq(parent_path, 5, Len(parent_path))

\* an ItemInfo was built from the item resource
InfoBuilt == last.op = "_create_item_info_from_api_response"

\* C27: for every item resource the path of the ItemInfo is the parent path
\* without its drive prefix, "/" and the name, just the name when there is
\* no parent path, and the drive prefix is nowhere in it.
C27_PathStripsDrivePrefix ==
    InfoBuilt =>
        LET item == last.args.item
            path == last.res.ret.path
        IN /\ path = IF item.parent_path = <<>> THEN item.name
                     ELSE WithoutDrivePrefix(item.parent_path) \o <<"/">> \o item.name
           /\ \A i \in 1..Len(path) : path[i] \notin {"/drives/", "/root", ":"}
           /\ \A did \in DriveIds, i \in 1..Len(path) : <<path[i]>> # did

\* the ItemInfo of an item two folders below the root of drive d2: its path
\* names the two folders and the item
C27_Witness ==
    /\ InfoBuilt
    /\ \E a, b \in Names :
          /\ last.args.item.parent_path =
                <<"/drives/", "d2", "/root", ":", "/">> \o a \o <<"/">> \o b
          /\ last.res.ret.path =
                <<"/">> \o a \o <<"/">> \o b \o <<"/">> \o last.args.item.name

====
